---- MODULE Spec2Model ----
(***************************************************************************)
(* Device Pool Registry (class DeviceManager) of the parallel WebdriverIO  *)
(* driver: an in-memory device catalog and lock table per worker process,  *)
(* and the lock file device-locks.json all worker processes share.         *)
(***************************************************************************)
EXTENDS Integers, Sequences, FiniteSets, TLC

\* ------------------------------------------------------------------------
\* Universe of the model
\* ------------------------------------------------------------------------

\* worker processes, each with its own DeviceManager singleton
Procs == {"w1", "w2"}

\* test identifiers (testDataManager.createTestId results)
Tests == {"t1", "t2", "t3"}

\* the worker of the one-process specification
Solo == {"w1"}

\* most file operations (read, write, unlink) that fail in one run
MaxFaults == 2

\* the tests each worker runs when two workers run side by side: a worker
\* allocates and releases for the tests of its own spec file only
TestsOf == [w1 |-> {"t1"}, w2 |-> {"t2"}]

\* the keys of this.devices
Platforms == {"android", "ios"}

\* a missing property of a device configuration
None == "none"

\* the lock file does not exist
NoFile == [exists |-> FALSE, data |-> <<>>]

\* a null return
Null == "null"

\* the return value of a function that returns nothing
Undefined == "undefined"

\* a return of the boolean true
True == "true"

\* new Date().toISOString(): written into a lock and read by no operation;
\* the model keeps the field and abstracts the instant
IsoNow == "iso-timestamp"

\* device configurations of the parallel driver
Pixel5 == [id |-> "emulator-5554", udid |-> None, deviceName |-> "Pixel_5_API_31", platformVersion |-> "12.0"]

Pixel4 == [id |-> "emulator-5556", udid |-> None, deviceName |-> "Pixel_4_API_30", platformVersion |-> "11.0"]

IPhone13 == [id |-> None, udid |-> "A4951C44-F23F-4E94-8435-05AA4BA2A87F", deviceName |-> "iPhone 13", platformVersion |-> "15.0"]

\* catalogs a worker may pass to initializeDevicePool: the configured
\* Android list, and the same list after a device was taken out of it
AndroidCatalogs == {<<Pixel5, Pixel4>>, <<Pixel5>>}

IosCatalogs == {<<IPhone13>>}

\* an Android-only run: iosDevices takes its default, []
NoDevices == {<<>>}

VARIABLES
    devices,    \* devices[p][platform]: this.devices of worker p, a sequence of devices with inUse
    locks,      \* locks[p]: this.locks of worker p, a map testId -> lock
    file,       \* device-locks.json: whether it exists and the map testId -> lock it holds
    done,       \* done[p]: worker p ran its `after` hook
    last,       \* the last call made and the value it returned
    faults,     \* number of file operations that failed so far
    clean       \* history: clean[p] holds while worker p, since its pool was last all free
                \* with an empty lock table, only called allocateDevice for testIds without a lock

vars == <<devices, locks, file, done, last, faults, clean>>

\* the state of the Remote Device Broker (class DeviceFarmManager)
VARIABLES
    allocations,    \* this.allocations: a map testId -> Allocation
    pending,        \* the calls that await the answer of the device farm, oldest first
    reply,          \* the last call that returned, and what it returned
    hist            \* history: hist[t] is how the last broker call for testId t ended

brokerVars == <<allocations, pending, reply, hist>>

\* the state of the Isolation Engine and the Fixture Store (class TestDataManager)
VARIABLES
    testData,               \* this.testData: a map testId -> isolated record
    testExecutionContexts,  \* this.testExecutionContexts: a map testId -> context id
    dataCache,              \* this.dataCache: a map cacheKey -> category -> list of object addresses
    heap,                   \* the nested objects records refer to: a map address -> object
    source,                 \* source[type]: the document <type>.json of the test data directory
    ret                     \* the last TestDataManager call and what it returned

dataVars == <<testData, testExecutionContexts, dataCache, heap, source, ret>>

\* the state of a worker's driver: the hooks of the configuration it loaded
\* and the BaseTest instance of its tests
VARIABLES
    conf,           \* the configuration module the worker loaded
    testContext,    \* global.testContext: a map testId -> what the hooks stored for the test
    context,        \* the `context` object the hooks of a worker are called with
    phase,          \* how far the worker is with its current test
    hook,           \* the last hook or BaseTest method that returned, and whether it threw
    baseTestId      \* this.testId of the BaseTest instance

driverVars == <<conf, testContext, context, phase, hook, baseTestId>>

\* what the synchronous methods and _makeRequest work with and hand back
VARIABLES
    config,         \* this.config of the broker: the credentials read from the environment
    sent,           \* the last request _makeRequest handed to axios
    options,        \* what the last getRemoteOptions call returned, or what it threw
    available       \* what the last getAvailableDevices call of the registry returned

callVars == <<config, sent, options, available>>

\* the outcomes of a file operation: fs.readFileSync, fs.writeFileSync and
\* fs.unlinkSync succeed or throw
Outcomes == IF faults < MaxFaults THEN BOOLEAN ELSE {TRUE}

\* ------------------------------------------------------------------------
\* Helpers
\* ------------------------------------------------------------------------

Min(S) == CHOOSE x \in S : \A y \in S : x <= y

\* fault: the udid is taken also when the device has an id
DeviceIdOfUdid(d) == d.udid

\* device.id || device.udid
DeviceIdOf(d) == IF d.id # None THEN d.id ELSE d.udid

\* (d.id === deviceId) || (d.udid === deviceId)
Matches(d, deviceId) == d.id = deviceId \/ d.udid = deviceId

\* Array.prototype.find: position of the first matching device, 0 when none
FindDevice(devs, deviceId) ==
    LET S == {i \in DOMAIN devs : Matches(devs[i], deviceId)}
    IN  IF S = {} THEN 0 ELSE Min(S)

\* fault: the filter keeps every device, in use or not
AvailableIdxAll(p, platform) == DOMAIN devices[p][platform]

\* fault: the filter also drops the devices the lock file records as held
AvailableIdxRereading(p, platform) ==
    {i \in DOMAIN devices[p][platform] :
        /\ ~devices[p][platform][i].inUse
        /\ ~\E t \in DOMAIN file.data :
               /\ file.data[t].platform = platform
               /\ Matches(devices[p][platform][i], file.data[t].deviceId)}

\* this.devices[platform].filter(device => !device.inUse), as positions
AvailableIdx(p, platform) == {i \in DOMAIN devices[p][platform] : ~devices[p][platform][i].inUse}

\* fault: the last available device is taken
FirstAvailableLast(availableDevices) ==
    CHOOSE x \in availableDevices : \A y \in availableDevices : x >= y

\* availableDevices[0]: filter keeps the registration order
FirstAvailable(availableDevices) == Min(availableDevices)

\* androidDevices.map(device => ({...device, inUse: false}))
MarkFree(catalog) ==
    [i \in DOMAIN catalog |->
        [id |-> catalog[i].id, udid |-> catalog[i].udid,
         deviceName |-> catalog[i].deviceName,
         platformVersion |-> catalog[i].platformVersion,
         inUse |-> FALSE]]

\* new Map()
EmptyLocks == <<>>

\* Map.prototype.set
MapSet(m, k, v) == [x \in DOMAIN m \cup {k} |-> IF x = k THEN v ELSE m[x]]

\* Map.prototype.delete
MapDelete(m, k) == [x \in DOMAIN m \ {k} |-> m[x]]

\* Array.from(this.locks.entries()).reduce(...): one property per Map entry
LockData(lockMap) == [t \in DOMAIN lockMap |-> lockMap[t]]

\* fault: the entries of the file are kept and the lock table is merged into them
PersistLocksMerged(lockMap, writeOk) ==
    IF writeOk
    THEN [exists |-> TRUE,
          data |-> [t \in DOMAIN file.data \cup DOMAIN lockMap |->
                       IF t \in DOMAIN lockMap THEN lockMap[t] ELSE file.data[t]]]
    ELSE file

\* _persistLocks: the file after the call; a failed write is caught and logged
PersistLocks(lockMap, writeOk) ==
    IF writeOk THEN [exists |-> TRUE, data |-> LockData(lockMap)] ELSE file

\* fault: the test is inverted, no restored device is marked
RestoreMarksNothing(device) == device = 0

\* _restoreLocks, the test in front of device.inUse = true
RestoreMarks(device) == device # 0

\* _restoreLocks, device side: every entry of the file marks the first
\* device of its platform that matches its deviceId
RestoredDevices(devs, lockData) ==
    [pl \in Platforms |->
        [i \in DOMAIN devs[pl] |->
            IF \E t \in DOMAIN lockData :
                   /\ lockData[t].platform = pl
                   /\ FindDevice(devs[pl], lockData[t].deviceId) = i
                   /\ RestoreMarks(i)
            THEN [devs[pl][i] EXCEPT !.inUse = TRUE]
            ELSE devs[pl][i]]]

\* fault: the Map is cleared and no entry of the file is set
RestoredLocksEmpty(lockData) == EmptyLocks

\* _restoreLocks, lock side: the Map is cleared, then every entry of the file
\* is set, before its device is looked up
RestoredLocks(lockData) == [t \in DOMAIN lockData |-> lockData[t]]

\* fault: the whole lock table is cleared
ReleasedLocksAll(lockMap, testId) == EmptyLocks

\* fault: the lock of testId is not deleted
ReleasedLocksKept(lockMap, testId) == lockMap

\* the lock table after releaseDevice found the device of testId's lock
ReleasedLocks(lockMap, testId) == MapDelete(lockMap, testId)

\* fault: the devices in use are listed as well
GetAvailableDevicesAll(p) == [pl \in Platforms |-> devices[p][pl]]

\* getAvailableDevices()
GetAvailableDevices(p) ==
    [pl \in Platforms |->
        SelectSeq(devices[p][pl], LAMBDA d : ~d.inUse)]

\* every device of worker p free and its lock table empty
Fresh(devs, lockMap) ==
    /\ \A pl \in Platforms : \A i \in DOMAIN devs[pl] : ~devs[pl][i].inUse
    /\ DOMAIN lockMap = {}

\* ------------------------------------------------------------------------
\* Remote Device Broker: values
\* ------------------------------------------------------------------------

\* the devices the device farm may hand out (response.data.device.id)
FarmDevices == {"farm-1", "farm-2"}

\* response.data.sessionId
Sessions == {"session-1", "session-2"}

\* response.data.endpoint
FarmEndpoint == "http://farm-host:4723"

\* axios rejects: the service is unreachable, or it answers with a status
\* outside 2xx
Rejected == [rejected |-> TRUE, status |-> 0, device |-> None, sessionId |-> None, endpoint |-> None]

\* what `await this._makeRequest('POST', '/device', ...)` may yield: a
\* rejection, or a 2xx response with or without a device
AllocationAnswers ==
    {Rejected} \cup
    [rejected : {FALSE}, status : {200, 201}, device : FarmDevices \cup {None},
     sessionId : Sessions, endpoint : {FarmEndpoint}]

\* what `await this._makeRequest('POST', '/device/<id>/release', ...)` may yield
ReleaseAnswers ==
    {Rejected} \cup
    [rejected : {FALSE}, status : {200, 204}, device : {None},
     sessionId : {None}, endpoint : {None}]

\* a null return of requestDevice, in the shape of an Allocation
NoAllocation == [device |-> [id |-> None], sessionId |-> None, endpoint |-> None, allocated |-> FALSE, timestamp |-> None]

\* the allocation object requestDevice builds from a response
Allocation(response) ==
    [device |-> [id |-> response.device], sessionId |-> response.sessionId,
     endpoint |-> response.endpoint, allocated |-> TRUE, timestamp |-> IsoNow]

\* fault: the cache is never consulted
HasAllocationNever(allocs, testId) == FALSE

\* this.allocations.has(testId)
HasAllocation(allocs, testId) == testId \in DOMAIN allocs

\* fault: every response that arrives counts as an allocation
AllocatedAnyResponse(response) == ~response.rejected

\* the call resolved and response.status === 200 && response.data.device
Allocated(response) ==
    /\ ~response.rejected
    /\ response.status = 200
    /\ response.device # None

\* fault: every answered release call counts as a release, whatever its status
ReleasedAnyStatus(response) == ~response.rejected

\* the call resolved and response.status === 200
Released(response) == ~response.rejected /\ response.status = 200

\* fault: the allocation of testId is not deleted
ReleasedAllocationsKept(allocs, testId) == allocs

\* the cache after a successful release call
ReleasedAllocations(allocs, testId) == MapDelete(allocs, testId)

\* a sequence without its i-th element
Without(seq, i) == [j \in 1..(Len(seq) - 1) |-> IF j < i THEN seq[j] ELSE seq[j + 1]]

\* no broker call made yet
NoReply == [op |-> "new", testId |-> None, allocation |-> NoAllocation, success |-> FALSE, calls |-> 0, prior |-> "none"]

\* the broker right after `new DeviceFarmManager()`
BrokerInit ==
    /\ allocations = <<>>
    /\ pending = <<>>
    /\ reply = NoReply
    /\ hist = [t \in Tests |-> "none"]

\* ------------------------------------------------------------------------
\* Isolation Engine and Fixture Store: values
\* ------------------------------------------------------------------------

\* most context ids one identity field carries
MaxTags == 2

\* the tests that ask for isolated data
DataTests == {"t1", "t2"}

\* executionContext.id, `exec-${Date.now()}-${Math.round(Math.random() * 10000)}`:
\* whatever the clock and the random generator yield
Contexts == {"exec-1", "exec-2"}

\* the data types a caller asks for (<type>.json)
Types == {"users"}

\* the category argument of loadTestData; Null when it is left out
Categories == {"valid", "admin", Null}

\* the index argument of loadTestData
Indexes == {-1, 0, 1, 2}

\* a record without a user property, and the address of no object
NoUser == [key |-> <<None, None>>, category |-> None, index |-> 0]

\* the nested user object of a base record the calling test built itself
Literal == [key |-> <<"test", "literal">>, category |-> None, index |-> 1]

\* an email `name@domain`: name is the name followed by the context ids
\* inserted so far (`name+id1+id2`)
Email(name) == [name |-> <<name>>, domain |-> "example.com"]

\* a user object: email and username, <<>> when the property is missing
UserObject(email, username) == [email |-> email, username |-> username]

Alice == UserObject(<<Email("alice")>>, <<"alice">>)

Bob == UserObject(<<Email("bob")>>, <<>>)

Carol == UserObject(<<>>, <<"carol">>)

\* {}: a record without properties
EmptyRecord == [user |-> NoUser, _executionContext |-> None, note |-> None, email |-> <<>>, username |-> <<>>]

\* base records a test passes to initializeTestData; baseData = {} is the default
BaseOf(user) == [EmptyRecord EXCEPT !.user = user]

\* base records with an email and a username of their own, next to the user
\* object or without one
IdentityBases ==
    {[EmptyRecord EXCEPT !.user = user, !.email = email, !.username = username] :
        user \in {NoUser, Literal}, email \in {<<>>, <<Email("owner")>>},
        username \in {<<>>, <<"owner">>}}

\* the newData arguments of updateTestData
NewDatas == {EmptyRecord, [EmptyRecord EXCEPT !.note = "n1"]}

\* the document of a type: missing, not parseable, or parsed into an object
\* that may hold, under the type's name, a map category -> list of records
Missing == [state |-> "missing", hasType |-> FALSE, data |-> <<>>]

Corrupt == [state |-> "corrupt", hasType |-> FALSE, data |-> <<>>]

DocA == [state |-> "ok", hasType |-> TRUE, data |-> [c \in {"valid"} |-> <<Alice, Bob>>]]

DocB == [state |-> "ok", hasType |-> TRUE, data |-> [c \in {"valid"} |-> <<Carol>>]]

DocOther == [state |-> "ok", hasType |-> FALSE, data |-> <<>>]

Documents == {Missing, Corrupt, DocA, DocB, DocOther}

\* `${dataType}:${category || 'all'}`
CacheKey(dataType, category) == <<dataType, IF category = Null THEN "all" ELSE category>>

\* the address of the object JSON.parse creates for record i of a category
\* of the data cached under a key
Address(key, category, i) == [key |-> key, category |-> category, index |-> i]

\* fileData[dataType] || {}, by address: what the cache holds under a key
Parsed(key, doc) ==
    IF doc.hasType
    THEN [c \in DOMAIN doc.data |-> [i \in DOMAIN doc.data[c] |-> Address(key, c, i)]]
    ELSE <<>>

\* the heap after JSON.parse built the objects of a document
WithParsed(h, key, doc) ==
    LET new == IF doc.hasType
               THEN UNION {{Address(key, c, i) : i \in DOMAIN doc.data[c]} : c \in DOMAIN doc.data}
               ELSE {}
    IN  [a \in DOMAIN h \cup new |->
            IF a \in new THEN doc.data[a.category][a.index] ELSE h[a]]

\* the number of context ids the identity fields of a user object carry
Tags(user) ==
    IF user.email # <<>> THEN Len(user.email[1].name) - 1
    ELSE IF user.username # <<>> THEN Len(user.username) - 1
    ELSE 0

\* _isolateData on the user object: `${name}+${contextId}@${domain}` and
\* `${username}_${contextId}`, each when the property is there
Tagged(user, contextId) ==
    [email |-> IF user.email # <<>>
               THEN <<[user.email[1] EXCEPT !.name = Append(@, contextId)]>>
               ELSE <<>>,
     username |-> IF user.username # <<>>
                  THEN Append(user.username, contextId)
                  ELSE <<>>]

\* _isolateData, the record it returns: { ...data } with _executionContext set;
\* the user property of the copy is the user object of data, and the other
\* properties, an email or a username of the record itself among them, are
\* those of data
IsolateData(data, contextId) == [data EXCEPT !._executionContext = contextId]

\* _isolateData, the heap it leaves: the assignments to isolatedData.user.email
\* and isolatedData.user.username write to the object data.user refers to
IsolatedHeap(h, data, contextId) ==
    IF data.user # NoUser
    THEN [h EXCEPT ![data.user] = Tagged(h[data.user], contextId)]
    ELSE h

\* { ...currentData, ...newData }
Merge(currentData, newData) ==
    [user |-> IF newData.user # NoUser THEN newData.user ELSE currentData.user,
     _executionContext |-> IF newData._executionContext # None
                           THEN newData._executionContext
                           ELSE currentData._executionContext,
     note |-> IF newData.note # None THEN newData.note ELSE currentData.note,
     email |-> IF newData.email # <<>> THEN newData.email ELSE currentData.email,
     username |-> IF newData.username # <<>> THEN newData.username ELSE currentData.username]

\* fault: every test is answered with the empty record
StoredOrEmptyNever(store, testId) == EmptyRecord

\* this.testData.get(testId) || {}
StoredOrEmpty(store, testId) == IF testId \in DOMAIN store THEN store[testId] ELSE EmptyRecord

\* fault: the binding of testId is not deleted
CleanedContextsKept(contexts, testId) == contexts

\* this.testExecutionContexts.delete(testId)
CleanedContexts(contexts, testId) == MapDelete(contexts, testId)

\* fault: the cache is never consulted
CachedNever(cache, key) == FALSE

\* this.dataCache.has(cacheKey)
Cached(cache, key) == key \in DOMAIN cache

\* the TestDataManager right after construction, with a document for every type
DataInit ==
    /\ testData = <<>>
    /\ testExecutionContexts = <<>>
    /\ dataCache = <<>>
    /\ heap = [a \in {Literal} |-> UserObject(<<Email("user")>>, <<"user">>)]
    /\ source = [ty \in Types |-> DocA]
    /\ ret = [op |-> "new", testId |-> None, kind |-> "undefined", record |-> EmptyRecord,
              ref |-> NoUser, read |-> FALSE, known |-> FALSE, seen |-> None]

\* ------------------------------------------------------------------------
\* Drivers: values
\* ------------------------------------------------------------------------

\* the configurations a worker may be started with, as the scripts of
\* package.json start them: wdio.parallel.conf.js with PARALLEL=true,
\* wdio.devicefarm.conf.js and the base configuration without
Confs == {"parallel", "devicefarm", "sequential"}

\* process.env.PARALLEL === 'true'
IsParallelExecution(c) == c = "parallel"

\* the configuration has the hooks beforeHook, beforeTest, afterTest, after
HasHooks(c) == c \in {"parallel", "devicefarm"}

\* generateTestId(testName): appName, testName, Date.now() and a random
\* number; never the id createTestId gives the hooks
BaseIds == [t1 |-> "app_t1_1", t2 |-> "app_t2_2"]

\* the entry beforeHook stores: { testId, testName, specFile }
HookEntry == [testData |-> FALSE, device |-> FALSE, deviceAllocation |-> FALSE]

\* the `context` of the hooks before beforeHook ran
NoContext == [testId |-> None, deviceAllocation |-> FALSE]

\* the driver of a worker before a configuration is loaded
DriverInit ==
    /\ conf = "none"
    /\ testContext = <<>>
    /\ context = NoContext
    /\ phase = "idle"
    /\ hook = [op |-> "none", thrown |-> FALSE]
    /\ baseTestId = Null

\* ------------------------------------------------------------------------
\* Requests, remote options and snapshots: values
\* ------------------------------------------------------------------------

\* this.config, the credentials of it: the environment variable of each is
\* not set, set to the empty string, or set to a value
Configs ==
    [apiKey : {Undefined, "", "key-1"}, username : {Undefined, "", "farm-user"},
     password : {Undefined, "", "farm-pass"}]

\* this.config when no variable of the credentials is set
NoCredentials == [apiKey |-> Undefined, username |-> Undefined, password |-> Undefined]

\* a value that counts as true in a condition: neither undefined nor ''
Truthy(v) == v # Undefined /\ v # ""

\* Buffer.from(text).toString('base64'), text given in pieces
Base64(text) == <<"base64">> \o text

\* fault: the two credentials are tested independently of one another
HeadersBoth(cfg) ==
    [xApiKey |-> IF Truthy(cfg.apiKey) THEN <<cfg.apiKey>> ELSE <<>>,
     authorization |-> IF Truthy(cfg.username) /\ Truthy(cfg.password)
                       THEN <<"Basic">> \o Base64(<<cfg.username, ":", cfg.password>>)
                       ELSE <<>>]

\* the headers _makeRequest builds: X-API-Key, or else Authorization: Basic;
\* <<>> for a header that is not set
Headers(cfg) ==
    IF Truthy(cfg.apiKey)
    THEN [xApiKey |-> <<cfg.apiKey>>, authorization |-> <<>>]
    ELSE IF Truthy(cfg.username) /\ Truthy(cfg.password)
         THEN [xApiKey |-> <<>>,
               authorization |-> <<"Basic">> \o Base64(<<cfg.username, ":", cfg.password>>)]
         ELSE [xApiKey |-> <<>>, authorization |-> <<>>]

\* the requests the broker makes: initialize, getAvailableDevices,
\* requestDevice and releaseDevice
Requests ==
    {<<"GET", "/status">>, <<"GET", "/devices">>, <<"POST", "/device">>,
     <<"POST", "/device/farm-1/release">>}

\* no request made yet
NoRequest == [method |-> None, endpoint |-> None, headers |-> Headers(NoCredentials)]

\* the endpoints the device farm may answer with: with and without the
\* protocol part, with and without a port
Endpoints == {FarmEndpoint, "https://farm-host:8080", "http://farm-host", "farm-host:4723", "farm-host"}

\* the text of an endpoint, cut where a separator starts or ends
Text(endpoint) ==
    CASE endpoint = "http://farm-host:4723" -> <<"http", "://", "farm-host", ":", "4723">>
      [] endpoint = "https://farm-host:8080" -> <<"https", "://", "farm-host", ":", "8080">>
      [] endpoint = "http://farm-host" -> <<"http", "://", "farm-host">>
      [] endpoint = "farm-host:4723" -> <<"farm-host", ":", "4723">>
      [] endpoint = "farm-host" -> <<"farm-host">>

\* String.prototype.split(separator): the pieces between the separators
Split(text, separator) ==
    LET seps == {i \in DOMAIN text : text[i] = separator}
        n == Cardinality(seps) + 1
        Sep(k) == CHOOSE i \in seps : Cardinality({j \in seps : j < i}) = k - 1
        From(k) == IF k = 1 THEN 1 ELSE Sep(k - 1) + 1
        To(k) == IF k = n THEN Len(text) ELSE Sep(k) - 1
    IN  [k \in 1..n |-> SubSeq(text, From(k), To(k))]

\* the value undefined where a text is expected
NoText == <<Undefined>>

\* const [a, b] = parts: the k-th element, undefined beyond the end
Element(parts, k) == IF k \in DOMAIN parts THEN parts[k] ELSE NoText

\* value || fallback: the fallback for undefined and for ''
OrElse(value, fallback) == IF value = NoText \/ value = <<>> THEN fallback ELSE value

\* parseInt(text) of the ports that occur; NaN, here -1, for other text
ParseInt(text) ==
    CASE text = <<"4723">> -> 4723
      [] text = <<"8080">> -> 8080
      [] OTHER -> -1

\* a getRemoteOptions call that threw
Thrown(error) ==
    [thrown |-> error, protocol |-> <<>>, hostname |-> <<>>, port |-> 0,
     path |-> None, sessionId |-> None]

\* getRemoteOptions, from the cached allocation on: the options it returns,
\* or the TypeError of `hostname.split` when hostname is undefined
RemoteOptions(allocation) ==
    LET parts == Split(Text(allocation.endpoint), "://")
        protocol == Element(parts, 1)
        hostname == Element(parts, 2)
        hostParts == Split(hostname, ":")
        host == Element(hostParts, 1)
        port == Element(hostParts, 2)
    IN  IF hostname = NoText
        THEN Thrown("TypeError")
        ELSE [thrown |-> None,
              protocol |-> OrElse(protocol, <<"http">>),
              hostname |-> OrElse(host, <<"localhost">>),
              port |-> ParseInt(OrElse(port, <<"4723">>)),
              path |-> "/wd/hub",
              sessionId |-> allocation.sessionId]

\* what POST /device may yield when the farm names any of the endpoints
EndpointAnswers ==
    {Rejected} \cup
    [rejected : {FALSE}, status : {200}, device : {"farm-1"},
     sessionId : Sessions, endpoint : Endpoints]

\* before any request, getRemoteOptions call and getAvailableDevices call
CallInit ==
    /\ sent = NoRequest
    /\ options = Thrown("none yet")
    /\ available = [pl \in Platforms |-> <<>>]

\* ------------------------------------------------------------------------
\* Initial state: every worker right after `new DeviceManager()`, no lock file
\* ------------------------------------------------------------------------

Constructed ==
    /\ devices = [p \in Procs |-> [pl \in Platforms |-> <<>>]]
    /\ locks = [p \in Procs |-> EmptyLocks]
    /\ file = NoFile
    /\ done = [p \in Procs |-> FALSE]
    /\ last = [op |-> "new", result |-> Undefined]
    /\ faults = 0
    /\ clean = [p \in Procs |-> TRUE]
    /\ BrokerInit
    /\ DataInit
    /\ DriverInit
    /\ CallInit

\* no variable of the credentials is set in the environment
Init == Constructed /\ config = NoCredentials

\* the credentials are set in the environment in any of the ways they can be
InitAuth == Constructed /\ config \in Configs

\* ------------------------------------------------------------------------
\* Operations
\* ------------------------------------------------------------------------

\* initializeDevicePool(androidDevices, iosDevices), _restoreLocks included.
\* readOk = FALSE: readFileSync or JSON.parse throws, which is caught.
InitializeDevicePoolOp(p, androidDevices, iosDevices, readOk) ==
    LET fresh == [pl \in Platforms |->
                    IF pl = "android" THEN MarkFree(androidDevices)
                                      ELSE MarkFree(iosDevices)]
    IN  /\ ~done[p]
        /\ IF file.exists /\ readOk
           THEN /\ locks' = [locks EXCEPT ![p] = RestoredLocks(file.data)]
                /\ devices' = [devices EXCEPT ![p] = RestoredDevices(fresh, file.data)]
           ELSE /\ locks' = locks
                /\ devices' = [devices EXCEPT ![p] = fresh]
        /\ last' = [op |-> "initializeDevicePool", result |-> Undefined]
        /\ faults' = IF file.exists /\ ~readOk THEN faults + 1 ELSE faults
        /\ clean' = [clean EXCEPT ![p] = Fresh(devices'[p], locks'[p])]
        /\ UNCHANGED <<file, done>>

\* the registry call alone: the broker, the Isolation Engine and the driver stay as they are
InitializeDevicePool(p, androidDevices, iosDevices, readOk) ==
    /\ InitializeDevicePoolOp(p, androidDevices, iosDevices, readOk)
    /\ UNCHANGED <<brokerVars, dataVars, driverVars, callVars>>

\* allocateDevice(platform, testId), _persistLocks included.
AllocateDeviceOp(p, platform, testId, writeOk) ==
    LET availableDevices == AvailableIdx(p, platform)
        i == FirstAvailable(availableDevices)
        device == devices[p][platform][i]
        newLocks == MapSet(locks[p], testId,
                        [platform |-> platform, deviceId |-> DeviceIdOf(device),
                         timestamp |-> IsoNow])
    IN  /\ ~done[p]
        /\ IF availableDevices = {}
           THEN /\ last' = [op |-> "allocateDevice", result |-> Null]
                /\ UNCHANGED <<devices, locks, file, done, faults, clean>>
           ELSE /\ devices' = [devices EXCEPT ![p][platform][i].inUse = TRUE]
                /\ locks' = [locks EXCEPT ![p] = newLocks]
                /\ file' = PersistLocks(newLocks, writeOk)
                /\ faults' = IF writeOk THEN faults ELSE faults + 1
                /\ last' = [op |-> "allocateDevice", result |-> DeviceIdOf(device)]
                /\ clean' = [clean EXCEPT ![p] = clean[p] /\ testId \notin DOMAIN locks[p]]
                /\ UNCHANGED done

\* the registry call alone: the broker, the Isolation Engine and the driver stay as they are
AllocateDevice(p, platform, testId, writeOk) ==
    /\ AllocateDeviceOp(p, platform, testId, writeOk)
    /\ UNCHANGED <<brokerVars, dataVars, driverVars, callVars>>

\* releaseDevice(testId), _persistLocks included.
ReleaseDeviceOp(p, testId, writeOk) ==
    LET lock == locks[p][testId]
        i == FindDevice(devices[p][lock.platform], lock.deviceId)
        newLocks == ReleasedLocks(locks[p], testId)
    IN  /\ ~done[p]
        /\ last' = [op |-> "releaseDevice", result |-> Undefined]
        /\ IF testId \notin DOMAIN locks[p]
           THEN UNCHANGED <<devices, locks, file, done, faults, clean>>
           ELSE IF i # 0
                THEN /\ devices' = [devices EXCEPT ![p][lock.platform][i].inUse = FALSE]
                     /\ locks' = [locks EXCEPT ![p] = newLocks]
                     /\ file' = PersistLocks(newLocks, writeOk)
                     /\ faults' = IF writeOk THEN faults ELSE faults + 1
                     /\ clean' = [clean EXCEPT ![p] = Fresh(devices'[p], locks'[p])]
                     /\ UNCHANGED done
                ELSE UNCHANGED <<devices, locks, file, done, faults, clean>>

\* the registry call alone: the broker, the Isolation Engine and the driver stay as they are
ReleaseDevice(p, testId, writeOk) ==
    /\ ReleaseDeviceOp(p, testId, writeOk)
    /\ UNCHANGED <<brokerVars, dataVars, driverVars, callVars>>

\* the `after` hook of the parallel driver: removes the lock file (a failed
\* unlink is caught); the worker makes no further call afterwards
AfterHookOp(p, unlinkOk) ==
    /\ ~done[p]
    /\ file' = IF file.exists /\ unlinkOk THEN NoFile ELSE file
    /\ done' = [done EXCEPT ![p] = TRUE]
    /\ last' = [op |-> "after", result |-> Undefined]
    /\ faults' = IF file.exists /\ ~unlinkOk THEN faults + 1 ELSE faults
    /\ UNCHANGED <<devices, locks, clean>>

\* the registry call alone: the broker, the Isolation Engine and the driver stay as they are
AfterHook(p, unlinkOk) ==
    /\ AfterHookOp(p, unlinkOk)
    /\ UNCHANGED <<brokerVars, dataVars, driverVars, callVars>>

\* worker p ends (normally or by a crash) and a new worker process takes its
\* place: the module is loaded again and constructs a new DeviceManager
NewWorkerOp(p) ==
    /\ devices' = [devices EXCEPT ![p] = [pl \in Platforms |-> <<>>]]
    /\ locks' = [locks EXCEPT ![p] = EmptyLocks]
    /\ done' = [done EXCEPT ![p] = FALSE]
    /\ last' = [op |-> "new", result |-> Undefined]
    /\ clean' = [clean EXCEPT ![p] = TRUE]
    /\ UNCHANGED <<file, faults>>

\* the registry call alone: the broker, the Isolation Engine and the driver stay as they are
NewWorker(p) ==
    /\ NewWorkerOp(p)
    /\ UNCHANGED <<brokerVars, dataVars, driverVars, callVars>>

\* ------------------------------------------------------------------------
\* Spec: one worker process and its lock file; reads, writes and the unlink
\* of the file may fail
\* ------------------------------------------------------------------------

Next ==
    \/ \E p \in Solo, a \in AndroidCatalogs, i \in IosCatalogs, readOk \in Outcomes :
           InitializeDevicePool(p, a, i, readOk)
    \/ \E p \in Solo, pl \in Platforms, t \in Tests, writeOk \in Outcomes :
           AllocateDevice(p, pl, t, writeOk)
    \/ \E p \in Solo, t \in Tests, writeOk \in Outcomes :
           ReleaseDevice(p, t, writeOk)
    \/ \E p \in Solo, unlinkOk \in Outcomes :
           AfterHook(p, unlinkOk)
    \/ \E p \in Solo :
           NewWorker(p)

Spec == Init /\ [][Next]_vars

\* ------------------------------------------------------------------------
\* SpecWorkers: two worker processes of an Android-only run share the lock
\* file; every file operation succeeds
\* ------------------------------------------------------------------------

NextWorkers ==
    \/ \E p \in Procs, a \in AndroidCatalogs, i \in NoDevices :
           InitializeDevicePool(p, a, i, TRUE)
    \/ \E p \in Procs : \E t \in TestsOf[p] :
           AllocateDevice(p, "android", t, TRUE)
    \/ \E p \in Procs : \E t \in TestsOf[p] :
           ReleaseDevice(p, t, TRUE)
    \/ \E p \in Procs :
           AfterHook(p, TRUE)
    \/ \E p \in Procs :
           NewWorker(p)

SpecWorkers == Init /\ [][NextWorkers]_vars

\* getAvailableDevices() of the registry: the snapshot is handed to the caller
GetAvailableDevicesCallOp(p) ==
    /\ ~done[p]
    /\ available' = GetAvailableDevices(p)
    /\ last' = [op |-> "getAvailableDevices", result |-> Undefined]
    /\ UNCHANGED <<devices, locks, file, done, faults, clean>>
    /\ UNCHANGED <<config, sent, options>>

\* the registry call alone: the broker, the Isolation Engine and the driver stay as they are
GetAvailableDevicesCall(p) ==
    /\ GetAvailableDevicesCallOp(p)
    /\ UNCHANGED <<brokerVars, dataVars, driverVars>>

\* ------------------------------------------------------------------------
\* SpecAvailable: one worker process asks for the free devices between its
\* other calls; every file operation succeeds
\* ------------------------------------------------------------------------

NextAvailable ==
    \/ \E p \in Solo, a \in AndroidCatalogs, i \in IosCatalogs :
           InitializeDevicePool(p, a, i, TRUE)
    \/ \E p \in Solo, pl \in Platforms, t \in Tests :
           AllocateDevice(p, pl, t, TRUE)
    \/ \E p \in Solo, t \in Tests :
           ReleaseDevice(p, t, TRUE)
    \/ \E p \in Solo :
           GetAvailableDevicesCall(p)

SpecAvailable == Init /\ [][NextAvailable]_<<vars, available>>

\* ------------------------------------------------------------------------
\* Remote Device Broker: operations. An async method runs up to its `await`
\* in one step and from the answer to its return in another.
\* ------------------------------------------------------------------------

\* requestDevice(platform, capabilities, testId) up to the await: a cached
\* allocation is returned at once, otherwise POST /device is issued
FarmRequestDeviceOp(testId) ==
    /\ IF HasAllocation(allocations, testId)
       THEN /\ reply' = [op |-> "requestDevice", testId |-> testId,
                         allocation |-> allocations[testId], success |-> TRUE,
                         calls |-> 0, prior |-> hist[testId]]
            /\ hist' = [hist EXCEPT ![testId] = "allocated"]
            /\ UNCHANGED <<allocations, pending>>
       ELSE /\ pending' = Append(pending, [op |-> "requestDevice", testId |-> testId,
                                           allocation |-> NoAllocation])
            /\ UNCHANGED <<allocations, reply, hist>>

\* the broker step alone: the registry, the Isolation Engine and the driver stay as they are
FarmRequestDevice(testId) ==
    /\ FarmRequestDeviceOp(testId)
    /\ UNCHANGED <<vars, dataVars, driverVars, callVars>>

\* requestDevice from the answer of POST /device to its return; every
\* failure ends in the catch block, which returns null
FarmRequestDeviceAnswerOp(i, response) ==
    LET testId == pending[i].testId
    IN  /\ i \in DOMAIN pending
        /\ pending[i].op = "requestDevice"
        /\ pending' = Without(pending, i)
        /\ IF Allocated(response)
           THEN /\ allocations' = MapSet(allocations, testId, Allocation(response))
                /\ reply' = [op |-> "requestDevice", testId |-> testId,
                             allocation |-> Allocation(response), success |-> TRUE,
                             calls |-> 1, prior |-> hist[testId]]
                /\ hist' = [hist EXCEPT ![testId] = "allocated"]
           ELSE /\ reply' = [op |-> "requestDevice", testId |-> testId,
                             allocation |-> NoAllocation, success |-> FALSE,
                             calls |-> 1, prior |-> hist[testId]]
                /\ hist' = [hist EXCEPT ![testId] = "failed"]
                /\ UNCHANGED allocations

\* the broker step alone: the registry, the Isolation Engine and the driver stay as they are
FarmRequestDeviceAnswer(i, response) ==
    /\ FarmRequestDeviceAnswerOp(i, response)
    /\ UNCHANGED <<vars, dataVars, driverVars, callVars>>

\* releaseDevice(testId) up to the await: without a cached allocation it
\* returns true at once, otherwise POST /device/<id>/release is issued
FarmReleaseDeviceOp(testId) ==
    /\ IF ~HasAllocation(allocations, testId)
       THEN /\ reply' = [op |-> "releaseDevice", testId |-> testId,
                         allocation |-> NoAllocation, success |-> TRUE,
                         calls |-> 0, prior |-> hist[testId]]
            /\ UNCHANGED <<allocations, pending, hist>>
       ELSE /\ pending' = Append(pending, [op |-> "releaseDevice", testId |-> testId,
                                           allocation |-> allocations[testId]])
            /\ UNCHANGED <<allocations, reply, hist>>

\* the broker step alone: the registry, the Isolation Engine and the driver stay as they are
FarmReleaseDevice(testId) ==
    /\ FarmReleaseDeviceOp(testId)
    /\ UNCHANGED <<vars, dataVars, driverVars, callVars>>

\* releaseDevice from the answer of the release call to its return
FarmReleaseDeviceAnswerOp(i, response) ==
    LET testId == pending[i].testId
    IN  /\ i \in DOMAIN pending
        /\ pending[i].op = "releaseDevice"
        /\ pending' = Without(pending, i)
        /\ IF Released(response)
           THEN /\ allocations' = ReleasedAllocations(allocations, testId)
                /\ reply' = [op |-> "releaseDevice", testId |-> testId,
                             allocation |-> pending[i].allocation, success |-> TRUE,
                             calls |-> 1, prior |-> hist[testId]]
                /\ hist' = [hist EXCEPT ![testId] = "released"]
           ELSE /\ reply' = [op |-> "releaseDevice", testId |-> testId,
                             allocation |-> pending[i].allocation, success |-> FALSE,
                             calls |-> 1, prior |-> hist[testId]]
                /\ hist' = [hist EXCEPT ![testId] = "kept"]
                /\ UNCHANGED allocations

\* the broker step alone: the registry, the Isolation Engine and the driver stay as they are
FarmReleaseDeviceAnswer(i, response) ==
    /\ FarmReleaseDeviceAnswerOp(i, response)
    /\ UNCHANGED <<vars, dataVars, driverVars, callVars>>

\* ------------------------------------------------------------------------
\* SpecBroker: one worker calls the broker, one call after the other; the
\* device farm answers every call, in any of the ways it can
\* ------------------------------------------------------------------------

NextBroker ==
    \/ \E t \in Tests :
           pending = <<>> /\ FarmRequestDevice(t)
    \/ \E i \in DOMAIN pending, response \in AllocationAnswers :
           FarmRequestDeviceAnswer(i, response)
    \/ \E t \in Tests :
           pending = <<>> /\ FarmReleaseDevice(t)
    \/ \E i \in DOMAIN pending, response \in ReleaseAnswers :
           FarmReleaseDeviceAnswer(i, response)

SpecBroker == Init /\ [][NextBroker]_brokerVars

\* ------------------------------------------------------------------------
\* SpecOverlap: the callers of the broker do not wait for one another: a
\* call may start while earlier calls await their answer, and the answers
\* come in any order
\* ------------------------------------------------------------------------

\* calls that await an answer at the same time
MaxPending == 2

\* the testIds the overlapping callers use
OverlapTests == {"t1", "t2"}

NextOverlap ==
    \/ \E t \in OverlapTests :
           Len(pending) < MaxPending /\ FarmRequestDevice(t)
    \/ \E i \in DOMAIN pending, response \in AllocationAnswers :
           FarmRequestDeviceAnswer(i, response)
    \/ \E t \in OverlapTests :
           Len(pending) < MaxPending /\ FarmReleaseDevice(t)
    \/ \E i \in DOMAIN pending, response \in ReleaseAnswers :
           FarmReleaseDeviceAnswer(i, response)

SpecOverlap == Init /\ [][NextOverlap]_brokerVars

\* _makeRequest(method, endpoint, data) up to the call of axios
MakeRequestOp(method, endpoint) ==
    /\ sent' = [method |-> method, endpoint |-> endpoint, headers |-> Headers(config)]
    /\ UNCHANGED <<config, options, available>>

\* the request alone: the registry, the cache of the broker, the Isolation
\* Engine and the driver stay as they are
MakeRequest(method, endpoint) ==
    /\ MakeRequestOp(method, endpoint)
    /\ UNCHANGED <<vars, brokerVars, dataVars, driverVars>>

\* ------------------------------------------------------------------------
\* SpecAuth: a broker constructed in any environment makes its requests
\* ------------------------------------------------------------------------

NextAuth ==
    \E request \in Requests :
        MakeRequest(request[1], request[2])

SpecAuth == InitAuth /\ [][NextAuth]_<<config, sent>>

\* getRemoteOptions(testId): throws without a cached allocation, otherwise
\* takes the endpoint of the allocation apart
GetRemoteOptionsOp(testId) ==
    /\ options' = IF ~HasAllocation(allocations, testId)
                  THEN Thrown("Error")
                  ELSE RemoteOptions(allocations[testId])
    /\ UNCHANGED <<config, sent, available>>

\* the broker call alone: it is synchronous and leaves the cache, the calls
\* in flight and everything else as they are
GetRemoteOptions(testId) ==
    /\ GetRemoteOptionsOp(testId)
    /\ UNCHANGED <<vars, brokerVars, dataVars, driverVars>>

\* ------------------------------------------------------------------------
\* SpecRemote: one worker requests devices from a farm that names any of the
\* endpoints, asks for the remote options and releases the devices
\* ------------------------------------------------------------------------

\* the testIds of the worker
RemoteTests == {"t1", "t2"}

NextRemote ==
    \/ \E t \in RemoteTests :
           pending = <<>> /\ FarmRequestDevice(t)
    \/ \E i \in DOMAIN pending, response \in EndpointAnswers :
           FarmRequestDeviceAnswer(i, response)
    \/ \E t \in RemoteTests :
           pending = <<>> /\ FarmReleaseDevice(t)
    \/ \E i \in DOMAIN pending, response \in ReleaseAnswers :
           FarmReleaseDeviceAnswer(i, response)
    \/ \E t \in RemoteTests :
           GetRemoteOptions(t)

SpecRemote == Init /\ [][NextRemote]_<<brokerVars, options>>

\* ------------------------------------------------------------------------
\* Isolation Engine and Fixture Store: operations
\* ------------------------------------------------------------------------

\* what a TestDataManager call returned: the kind of value, the record or
\* the address of the object returned, whether the call read a document;
\* and what the call found: whether testId had a stored record, and the
\* state of the document of the type asked for
Returned(op, testId, kind, record, ref, read, seen) ==
    [op |-> op, testId |-> testId, kind |-> kind, record |-> record, ref |-> ref,
     read |-> read, known |-> testId \in DOMAIN testData, seen |-> seen]

\* initializeTestData(testId, baseData), _isolateData included
InitializeTestDataOp(testId, baseData, contextId) ==
    LET isolatedData == IsolateData(baseData, contextId)
    IN  /\ baseData.user # NoUser => baseData.user \in DOMAIN heap
        /\ baseData.user # NoUser => Tags(heap[baseData.user]) < MaxTags
        /\ testExecutionContexts' = MapSet(testExecutionContexts, testId, contextId)
        /\ heap' = IsolatedHeap(heap, baseData, contextId)
        /\ testData' = MapSet(testData, testId, isolatedData)
        /\ ret' = Returned("initializeTestData", testId, "object", isolatedData, baseData.user, FALSE, None)
        /\ UNCHANGED <<dataCache, source>>

\* the TestDataManager call alone: the registry, the broker and the driver stay as they are
InitializeTestData(testId, baseData, contextId) ==
    /\ InitializeTestDataOp(testId, baseData, contextId)
    /\ UNCHANGED <<vars, brokerVars, driverVars, callVars>>

\* getTestData(testId)
GetTestDataOp(testId) ==
    /\ ret' = Returned("getTestData", testId, "object", StoredOrEmpty(testData, testId), NoUser, FALSE, None)
    /\ UNCHANGED <<testData, testExecutionContexts, dataCache, heap, source>>

\* the TestDataManager call alone: the registry, the broker and the driver stay as they are
GetTestData(testId) ==
    /\ GetTestDataOp(testId)
    /\ UNCHANGED <<vars, brokerVars, driverVars, callVars>>

\* updateTestData(testId, newData)
UpdateTestDataOp(testId, newData) ==
    LET currentData == StoredOrEmpty(testData, testId)
        updatedData == Merge(currentData, newData)
    IN  /\ testData' = MapSet(testData, testId, updatedData)
        /\ ret' = Returned("updateTestData", testId, "object", updatedData, NoUser, FALSE, None)
        /\ UNCHANGED <<testExecutionContexts, dataCache, heap, source>>

\* the TestDataManager call alone: the registry, the broker and the driver stay as they are
UpdateTestData(testId, newData) ==
    /\ UpdateTestDataOp(testId, newData)
    /\ UNCHANGED <<vars, brokerVars, driverVars, callVars>>

\* cleanupTestData(testId)
CleanupTestDataOp(testId) ==
    /\ testData' = MapDelete(testData, testId)
    /\ testExecutionContexts' = CleanedContexts(testExecutionContexts, testId)
    /\ ret' = Returned("cleanupTestData", testId, "undefined", EmptyRecord, NoUser, FALSE, None)
    /\ UNCHANGED <<dataCache, heap, source>>

\* the TestDataManager call alone: the registry, the broker and the driver stay as they are
CleanupTestData(testId) ==
    /\ CleanupTestDataOp(testId)
    /\ UNCHANGED <<vars, brokerVars, driverVars, callVars>>

\* loadTestData, from the cached data to the return: the whole data without
\* a category, else categoryData[index] when categoryData.length > index,
\* else categoryData[0] || {}
Selected(cache, key, category, index) ==
    LET data == cache[key]
        categoryData == IF category \in DOMAIN data THEN data[category] ELSE <<>>
    IN  IF category = Null
        THEN [kind |-> "all", ref |-> Address(key, None, 0)]
        ELSE IF Len(categoryData) > index
             THEN IF index >= 0
                  THEN [kind |-> "fixture", ref |-> categoryData[index + 1]]
                  ELSE [kind |-> "undefined", ref |-> NoUser]
             ELSE IF Len(categoryData) > 0
                  THEN [kind |-> "fixture", ref |-> categoryData[1]]
                  ELSE [kind |-> "empty", ref |-> NoUser]

\* category ? {} : []
NoData(category) == IF category = Null THEN "emptyList" ELSE "empty"

\* loadTestData(dataType, category, index)
LoadTestDataOp(dataType, category, index) ==
    LET cacheKey == CacheKey(dataType, category)
        doc == source[dataType]
        hit == Cached(dataCache, cacheKey)
        newCache == IF hit THEN dataCache ELSE MapSet(dataCache, cacheKey, Parsed(cacheKey, doc))
        selected == Selected(newCache, cacheKey, category, index)
    IN  /\ IF ~hit /\ doc.state # "ok"
           THEN /\ ret' = Returned("loadTestData", None, NoData(category), EmptyRecord, NoUser,
                                   doc.state = "corrupt", doc.state)
                /\ UNCHANGED <<dataCache, heap>>
           ELSE /\ dataCache' = newCache
                /\ heap' = IF hit THEN heap ELSE WithParsed(heap, cacheKey, doc)
                /\ ret' = Returned("loadTestData", None, selected.kind, EmptyRecord, selected.ref, ~hit, doc.state)
        /\ UNCHANGED <<testData, testExecutionContexts, source>>

\* the TestDataManager call alone: the registry, the broker and the driver stay as they are
LoadTestData(dataType, category, index) ==
    /\ LoadTestDataOp(dataType, category, index)
    /\ UNCHANGED <<vars, brokerVars, driverVars, callVars>>

\* the document of a type is written, replaced or removed by its owner
SourceChangeOp(dataType, doc) ==
    /\ doc # source[dataType]
    /\ source' = [source EXCEPT ![dataType] = doc]
    /\ UNCHANGED <<testData, testExecutionContexts, dataCache, heap, ret>>

\* the TestDataManager call alone: the registry, the broker and the driver stay as they are
SourceChange(dataType, doc) ==
    /\ SourceChangeOp(dataType, doc)
    /\ UNCHANGED <<vars, brokerVars, driverVars, callVars>>

\* ------------------------------------------------------------------------
\* SpecData: the tests of one worker call the Isolation Engine; a base
\* record has no user, or the user object the tests share
\* ------------------------------------------------------------------------

NextData ==
    \/ \E t \in DataTests, user \in {NoUser, Literal}, contextId \in Contexts :
           InitializeTestData(t, BaseOf(user), contextId)
    \/ \E t \in DataTests :
           GetTestData(t)
    \/ \E t \in DataTests, newData \in NewDatas :
           UpdateTestData(t, newData)
    \/ \E t \in DataTests :
           CleanupTestData(t)

SpecData == Init /\ [][NextData]_dataVars

\* ------------------------------------------------------------------------
\* SpecFixtures: a test loads records of the Fixture Store and uses the
\* record it loaded as the user of its base record; one context id stands
\* for all
\* ------------------------------------------------------------------------

NextFixtures ==
    \/ \E dataType \in Types, category \in Categories, index \in Indexes :
           LoadTestData(dataType, category, index)
    \/ \E dataType \in Types, doc \in Documents :
           SourceChange(dataType, doc)
    \/ \E contextId \in {"exec-1"} :
           /\ ret.kind = "fixture"
           /\ InitializeTestData("t1", BaseOf(ret.ref), contextId)

SpecFixtures == Init /\ [][NextFixtures]_dataVars

\* ------------------------------------------------------------------------
\* SpecIsolate: tests initialize their records from base data that carry
\* identity fields of their own, under user, or both
\* ------------------------------------------------------------------------

NextIsolate ==
    \/ \E t \in DataTests, baseData \in IdentityBases, contextId \in Contexts :
           InitializeTestData(t, baseData, contextId)
    \/ \E t \in DataTests :
           GetTestData(t)
    \/ \E t \in DataTests :
           CleanupTestData(t)

SpecIsolate == Init /\ [][NextIsolate]_dataVars

\* ------------------------------------------------------------------------
\* SpecContract: one caller makes the same Allocate and Release calls on the
\* Pool Registry and on the Remote Device Broker, one call after the other.
\* The device farm is a pool of the registry's Android devices that answers
\* every call: it hands out a device no cached allocation holds, and it
\* accepts every release
\* ------------------------------------------------------------------------

\* the devices of the farm: those of the registry's catalog
FarmPool == <<Pixel5, Pixel4>>

\* what the farm answers to POST /device: its first device that is not
\* handed out, or, with none left, a refusal or a response without a device
FarmPoolAnswers(allocs) ==
    LET held == {allocs[t].device.id : t \in DOMAIN allocs}
        free == {i \in DOMAIN FarmPool : DeviceIdOf(FarmPool[i]) \notin held}
    IN  IF free = {}
        THEN {Rejected,
              [rejected |-> FALSE, status |-> 200, device |-> None,
               sessionId |-> "session-1", endpoint |-> FarmEndpoint]}
        ELSE {[rejected |-> FALSE, status |-> 200,
               device |-> DeviceIdOf(FarmPool[Min(free)]),
               sessionId |-> "session-1", endpoint |-> FarmEndpoint]}

\* what the farm answers to POST /device/<id>/release
FarmPoolReleased ==
    [rejected |-> FALSE, status |-> 200, device |-> None, sessionId |-> None, endpoint |-> None]

\* both backends are set up: initializeDevicePool with the catalog and no
\* lock file; the broker needs no call
ContractInitializePool ==
    /\ pending = <<>>
    /\ ~file.exists
    /\ InitializeDevicePoolOp("w1", FarmPool, <<>>, TRUE)
    /\ UNCHANGED <<brokerVars, dataVars, driverVars, callVars>>

\* Allocate(android, testId) on both backends: allocateDevice returns at
\* once, requestDevice runs up to its await
ContractAllocate(testId) ==
    /\ pending = <<>>
    /\ last.op # "new"
    /\ AllocateDeviceOp("w1", "android", testId, TRUE)
    /\ FarmRequestDeviceOp(testId)
    /\ UNCHANGED <<dataVars, driverVars, callVars>>

\* the farm answers the request and requestDevice returns
ContractAllocateAnswer(response) ==
    /\ FarmRequestDeviceAnswerOp(1, response)
    /\ UNCHANGED <<vars, dataVars, driverVars, callVars>>

\* Release(testId) on both backends
ContractRelease(testId) ==
    /\ pending = <<>>
    /\ last.op # "new"
    /\ ReleaseDeviceOp("w1", testId, TRUE)
    /\ FarmReleaseDeviceOp(testId)
    /\ UNCHANGED <<dataVars, driverVars, callVars>>

\* the farm answers the release and releaseDevice returns
ContractReleaseAnswer(response) ==
    /\ FarmReleaseDeviceAnswerOp(1, response)
    /\ UNCHANGED <<vars, dataVars, driverVars, callVars>>

NextContract ==
    \/ ContractInitializePool
    \/ \E t \in Tests :
           ContractAllocate(t)
    \/ \E response \in FarmPoolAnswers(allocations) :
           ContractAllocateAnswer(response)
    \/ \E t \in Tests :
           ContractRelease(t)
    \/ \E response \in {FarmPoolReleased} :
           ContractReleaseAnswer(response)

contractVars == <<vars, brokerVars>>

SpecContract == Init /\ [][NextContract]_contractVars

\* ------------------------------------------------------------------------
\* Drivers: the hooks of wdio.parallel.conf.js and wdio.devicefarm.conf.js,
\* and BaseTest.before and BaseTest.after
\* ------------------------------------------------------------------------

\* process.env.PLATFORM === 'ios' ? 'ios' : 'android', PLATFORM unset
Platform == "android"

\* the tests a worker runs, by the id createTestId gives them
HookTests == {"t1", "t2"}

\* fault: beforeTest goes on without a device
SetupAbortsNever(present) == FALSE

\* if (!device) throw ... and if (!allocation) throw ...
SetupAborts(present) == ~present

\* this.dataCache after loadTestData(dataType, category)
LoadedCache(dataType, category) ==
    LET cacheKey == CacheKey(dataType, category)
        doc == source[dataType]
    IN  IF Cached(dataCache, cacheKey) \/ doc.state # "ok"
        THEN dataCache
        ELSE MapSet(dataCache, cacheKey, Parsed(cacheKey, doc))

\* the objects there are after loadTestData(dataType, category)
LoadedHeap(dataType, category) ==
    LET cacheKey == CacheKey(dataType, category)
        doc == source[dataType]
    IN  IF Cached(dataCache, cacheKey) \/ doc.state # "ok"
        THEN heap
        ELSE WithParsed(heap, cacheKey, doc)

\* beforeTest from `const baseTestData` to its end: loadTestData('users')
\* returns the cached map category -> records or [], whose property 0 is
\* undefined, so the base record has no user; then initializeTestData, and
\* the entry of global.testContext, when there is one, gets the record
SetUpTestData(testId, contextId, entry) ==
    LET isolatedData == IsolateData(BaseOf(NoUser), contextId)
    IN  /\ dataCache' = LoadedCache("users", Null)
        /\ heap' = LoadedHeap("users", Null)
        /\ testExecutionContexts' = MapSet(testExecutionContexts, testId, contextId)
        /\ testData' = MapSet(testData, testId, isolatedData)
        /\ ret' = Returned("initializeTestData", testId, "object", isolatedData, NoUser, FALSE, None)
        /\ testContext' = IF testId \in DOMAIN testContext
                          THEN [testContext EXCEPT ![testId] = entry]
                          ELSE testContext
        /\ UNCHANGED source

\* a hook or BaseTest method returned, or threw
Hook(op, thrown) == [op |-> op, thrown |-> thrown]

\* wdio.parallel.conf.js is loaded: initializeDevicePool with the configured
\* devices, and global.testContext = {}
LoadParallelConf(androidDevices, iosDevices, readOk) ==
    /\ conf = "none"
    /\ InitializeDevicePoolOp("w1", androidDevices, iosDevices, readOk)
    /\ conf' = "parallel"
    /\ hook' = Hook("load", FALSE)
    /\ UNCHANGED <<testContext, context, phase, baseTestId>>
    /\ UNCHANGED <<brokerVars, dataVars>>
    /\ UNCHANGED callVars

\* wdio.devicefarm.conf.js is loaded: deviceFarmManager.initialize() asks
\* the farm for its status and keeps nothing of the answer
LoadDevicefarmConf ==
    /\ conf = "none"
    /\ conf' = "devicefarm"
    /\ hook' = Hook("load", FALSE)
    /\ UNCHANGED <<testContext, context, phase, baseTestId>>
    /\ UNCHANGED <<vars, brokerVars, dataVars>>
    /\ UNCHANGED callVars

\* the base configuration is loaded: no hook allocates, PARALLEL is not set
LoadSequentialConf ==
    /\ conf = "none"
    /\ conf' = "sequential"
    /\ hook' = Hook("load", FALSE)
    /\ UNCHANGED <<testContext, context, phase, baseTestId>>
    /\ UNCHANGED <<vars, brokerVars, dataVars>>
    /\ UNCHANGED callVars

\* beforeHook of both configurations
BeforeHook(testId) ==
    /\ HasHooks(conf)
    /\ phase = "idle"
    /\ context' = [context EXCEPT !.testId = testId]
    /\ testContext' = MapSet(testContext, testId, HookEntry)
    /\ phase' = "hooked"
    /\ hook' = Hook("beforeHook", FALSE)
    /\ UNCHANGED <<conf, baseTestId>>
    /\ UNCHANGED <<vars, brokerVars, dataVars>>
    /\ UNCHANGED callVars

\* beforeTest of wdio.parallel.conf.js
ParallelBeforeTest(writeOk, contextId) ==
    /\ conf = "parallel"
    /\ phase = "hooked"
    /\ AllocateDeviceOp("w1", Platform, context.testId, writeOk)
    /\ IF SetupAborts(last'.result # Null)
       THEN /\ hook' = Hook("beforeTest", TRUE)
            /\ phase' = "failed"
            /\ UNCHANGED <<testContext, dataVars>>
       ELSE /\ SetUpTestData(context.testId, contextId,
                             [testData |-> TRUE, device |-> TRUE, deviceAllocation |-> FALSE])
            /\ hook' = Hook("beforeTest", FALSE)
            /\ phase' = "ready"
    /\ UNCHANGED <<conf, context, baseTestId>>
    /\ UNCHANGED brokerVars
    /\ UNCHANGED callVars

\* beforeTest of wdio.devicefarm.conf.js from the return of requestDevice on
FarmBeforeTestRest(contextId) ==
    IF SetupAborts(reply'.success)
    THEN /\ hook' = Hook("beforeTest", TRUE)
         /\ phase' = "failed"
         /\ UNCHANGED <<testContext, context, dataVars>>
    ELSE /\ context' = [context EXCEPT !.deviceAllocation = TRUE]
         /\ SetUpTestData(context.testId, contextId,
                          [testData |-> TRUE, device |-> FALSE, deviceAllocation |-> TRUE])
         /\ hook' = Hook("beforeTest", FALSE)
         /\ phase' = "ready"

\* beforeTest of wdio.devicefarm.conf.js up to the await in requestDevice,
\* and to its end when requestDevice returns the cached allocation
FarmBeforeTest(contextId) ==
    /\ conf = "devicefarm"
    /\ phase = "hooked"
    /\ FarmRequestDeviceOp(context.testId)
    /\ IF HasAllocation(allocations, context.testId)
       THEN FarmBeforeTestRest(contextId)
       ELSE /\ phase' = "requesting"
            /\ UNCHANGED <<testContext, context, hook, dataVars>>
    /\ UNCHANGED <<conf, baseTestId>>
    /\ UNCHANGED vars
    /\ UNCHANGED callVars

\* beforeTest of wdio.devicefarm.conf.js from the answer of the farm on
FarmBeforeTestAnswer(response, contextId) ==
    /\ conf = "devicefarm"
    /\ phase = "requesting"
    /\ FarmRequestDeviceAnswerOp(1, response)
    /\ FarmBeforeTestRest(contextId)
    /\ UNCHANGED <<conf, baseTestId>>
    /\ UNCHANGED vars
    /\ UNCHANGED callVars

\* BaseTest.before(testName). With PARALLEL=true the record of the hooks is
\* looked up under the id generateTestId has just made, which is no key of
\* global.testContext, so initializeTestData is called with that id;
\* otherwise remote(remoteOptions) opens the session, or throws, first
BaseTestBefore(testId, remoteOk, contextId) ==
    /\ \/ HasHooks(conf) /\ phase = "ready" /\ testId = context.testId
       \/ ~HasHooks(conf) /\ conf = "sequential" /\ phase = "idle"
    /\ baseTestId' = BaseIds[testId]
    /\ IF IsParallelExecution(conf)
       THEN IF BaseIds[testId] \in DOMAIN testContext
            THEN /\ UNCHANGED dataVars
                 /\ hook' = Hook("BaseTest.before", FALSE)
                 /\ phase' = "running"
            ELSE /\ InitializeTestDataOp(BaseIds[testId], BaseOf(NoUser), contextId)
                 /\ hook' = Hook("BaseTest.before", FALSE)
                 /\ phase' = "running"
       ELSE IF remoteOk
            THEN /\ InitializeTestDataOp(BaseIds[testId], BaseOf(NoUser), contextId)
                 /\ hook' = Hook("BaseTest.before", FALSE)
                 /\ phase' = "running"
            ELSE /\ UNCHANGED dataVars
                 /\ hook' = Hook("BaseTest.before", TRUE)
                 /\ phase' = "running"
    /\ UNCHANGED <<conf, testContext, context>>
    /\ UNCHANGED <<vars, brokerVars>>
    /\ UNCHANGED callVars

\* BaseTest.after(): releaseDevice and cleanupTestData for this.testId, but
\* only without PARALLEL=true
BaseTestAfter(writeOk) ==
    /\ phase = "running"
    /\ hook' = Hook("BaseTest.after", FALSE)
    /\ IF IsParallelExecution(conf)
       THEN /\ phase' = "finished"
            /\ UNCHANGED <<vars, dataVars>>
       ELSE /\ phase' = IF HasHooks(conf) THEN "finished" ELSE "idle"
            /\ ReleaseDeviceOp("w1", baseTestId, writeOk)
            /\ CleanupTestDataOp(baseTestId)
    /\ UNCHANGED <<conf, testContext, context, baseTestId>>
    /\ UNCHANGED brokerVars
    /\ UNCHANGED callVars

\* the test is over for the hooks
Over == {"ready", "running", "finished", "failed"}

\* afterTest of wdio.parallel.conf.js
ParallelAfterTest(writeOk) ==
    /\ conf = "parallel"
    /\ phase \in Over
    /\ ReleaseDeviceOp("w1", context.testId, writeOk)
    /\ CleanupTestDataOp(context.testId)
    /\ testContext' = MapDelete(testContext, context.testId)
    /\ phase' = "idle"
    /\ hook' = Hook("afterTest", FALSE)
    /\ UNCHANGED <<conf, context, baseTestId>>
    /\ UNCHANGED brokerVars
    /\ UNCHANGED callVars

\* afterTest of wdio.devicefarm.conf.js from the return of releaseDevice,
\* whose value it does not look at, on
FarmAfterTestRest ==
    /\ CleanupTestDataOp(context.testId)
    /\ testContext' = MapDelete(testContext, context.testId)
    /\ phase' = "idle"
    /\ hook' = Hook("afterTest", FALSE)

\* afterTest of wdio.devicefarm.conf.js up to the await in releaseDevice,
\* and to its end when no call to the farm is made
FarmAfterTest ==
    /\ conf = "devicefarm"
    /\ phase \in Over
    /\ IF context.deviceAllocation
       THEN /\ FarmReleaseDeviceOp(context.testId)
            /\ IF HasAllocation(allocations, context.testId)
               THEN /\ phase' = "releasing"
                    /\ UNCHANGED <<testContext, hook, dataVars>>
               ELSE FarmAfterTestRest
       ELSE /\ FarmAfterTestRest
            /\ UNCHANGED brokerVars
    /\ UNCHANGED <<conf, context, baseTestId>>
    /\ UNCHANGED vars
    /\ UNCHANGED callVars

\* afterTest of wdio.devicefarm.conf.js from the answer of the farm on
FarmAfterTestAnswer(response) ==
    /\ conf = "devicefarm"
    /\ phase = "releasing"
    /\ FarmReleaseDeviceAnswerOp(1, response)
    /\ FarmAfterTestRest
    /\ UNCHANGED <<conf, context, baseTestId>>
    /\ UNCHANGED vars
    /\ UNCHANGED callVars

\* `after` of wdio.parallel.conf.js
ParallelAfter(unlinkOk) ==
    /\ conf = "parallel"
    /\ phase = "idle"
    /\ AfterHookOp("w1", unlinkOk)
    /\ phase' = "closed"
    /\ hook' = Hook("after", FALSE)
    /\ UNCHANGED <<conf, testContext, context, baseTestId>>
    /\ UNCHANGED <<brokerVars, dataVars>>
    /\ UNCHANGED callVars

\* the entries of global.testContext with a deviceAllocation: at most the one
\* of the test that is under way, since afterTest deletes the entry of its test
Orphaned == {t \in DOMAIN testContext : testContext[t].deviceAllocation}

\* `after` of wdio.devicefarm.conf.js up to the await in releaseDevice, and
\* to its end when it makes no call to the farm
FarmAfter ==
    /\ conf = "devicefarm"
    /\ phase \in Over \cup {"idle"}
    /\ IF Orphaned = {}
       THEN /\ testContext' = <<>>
            /\ phase' = "closed"
            /\ hook' = Hook("after", FALSE)
            /\ UNCHANGED brokerVars
       ELSE LET testId == CHOOSE t \in Orphaned : TRUE
            IN  /\ FarmReleaseDeviceOp(testId)
                /\ IF HasAllocation(allocations, testId)
                   THEN /\ phase' = "closing"
                        /\ UNCHANGED <<testContext, hook>>
                   ELSE /\ testContext' = <<>>
                        /\ phase' = "closed"
                        /\ hook' = Hook("after", FALSE)
    /\ UNCHANGED <<conf, context, baseTestId>>
    /\ UNCHANGED <<vars, dataVars>>
    /\ UNCHANGED callVars

\* `after` of wdio.devicefarm.conf.js from the answer of the farm on
FarmAfterAnswer(response) ==
    /\ conf = "devicefarm"
    /\ phase = "closing"
    /\ FarmReleaseDeviceAnswerOp(1, response)
    /\ testContext' = <<>>
    /\ phase' = "closed"
    /\ hook' = Hook("after", FALSE)
    /\ UNCHANGED <<conf, context, baseTestId>>
    /\ UNCHANGED <<vars, dataVars>>
    /\ UNCHANGED callVars

\* the worker process ends, normally or by a crash, and a new one is
\* started: every module is loaded again; the lock file and the documents of
\* the test data directory are what they were
Restart ==
    /\ NewWorkerOp("w1")
    /\ allocations' = <<>>
    /\ pending' = <<>>
    /\ reply' = NoReply
    /\ hist' = [t \in Tests |-> "none"]
    /\ testData' = <<>>
    /\ testExecutionContexts' = <<>>
    /\ dataCache' = <<>>
    /\ heap' = [a \in {Literal} |-> UserObject(<<Email("user")>>, <<"user">>)]
    /\ ret' = [op |-> "new", testId |-> None, kind |-> "undefined", record |-> EmptyRecord,
               ref |-> NoUser, read |-> FALSE, known |-> FALSE, seen |-> None]
    /\ conf' = "none"
    /\ testContext' = <<>>
    /\ context' = NoContext
    /\ phase' = "idle"
    /\ hook' = Hook("none", FALSE)
    /\ baseTestId' = Null
    /\ UNCHANGED source
    /\ UNCHANGED callVars

\* ------------------------------------------------------------------------
\* SpecDrivers: one worker loads a configuration and runs its tests one
\* after the other; the farm answers in any of the ways it can; every file
\* operation succeeds; one context id stands for all
\* ------------------------------------------------------------------------

NextDrivers ==
    \/ \E a \in AndroidCatalogs, i \in IosCatalogs :
           LoadParallelConf(a, i, TRUE)
    \/ LoadDevicefarmConf
    \/ LoadSequentialConf
    \/ \E t \in HookTests :
           BeforeHook(t)
    \/ \E contextId \in {"exec-1"} :
           ParallelBeforeTest(TRUE, contextId)
    \/ \E contextId \in {"exec-1"} :
           FarmBeforeTest(contextId)
    \/ \E response \in AllocationAnswers, contextId \in {"exec-1"} :
           FarmBeforeTestAnswer(response, contextId)
    \/ \E t \in HookTests, remoteOk \in BOOLEAN, contextId \in {"exec-1"} :
           BaseTestBefore(t, remoteOk, contextId)
    \/ BaseTestAfter(TRUE)
    \/ ParallelAfterTest(TRUE)
    \/ FarmAfterTest
    \/ \E response \in ReleaseAnswers :
           FarmAfterTestAnswer(response)
    \/ ParallelAfter(TRUE)
    \/ FarmAfter
    \/ \E response \in ReleaseAnswers :
           FarmAfterAnswer(response)
    \/ Restart

driverSpecVars == <<vars, brokerVars, dataVars, driverVars>>

SpecDrivers == Init /\ [][NextDrivers]_driverSpecVars

\* ------------------------------------------------------------------------
\* Properties
\* ------------------------------------------------------------------------

\* the device a lock references: its platform and its deviceId
SameDevice(l1, l2) == l1.platform = l2.platform /\ l1.deviceId = l2.deviceId

\* the position in worker p's catalog of the device a lock references, 0 when unknown
LockedIdx(p, lock) == FindDevice(devices[p][lock.platform], lock.deviceId)

\* C1: in one registry instance, after any sequence of initializeDevicePool,
\* allocateDevice and releaseDevice calls, two distinct testIds that both
\* hold an Allocation reference different devices.
ExclusiveDevices ==
    \A p \in Procs : \A t1, t2 \in DOMAIN locks[p] :
        t1 # t2 => ~SameDevice(locks[p][t1], locks[p][t2])

\* C3: allocateDevice(platform, testId) called while testId already holds an
\* Allocation returns that Allocation's device, marks no further device
\* inUse and leaves the lock table unchanged.
AllocateIdempotent ==
    [][\A p \in Procs, pl \in Platforms, t \in Tests, writeOk \in BOOLEAN :
          (AllocateDevice(p, pl, t, writeOk) /\ t \in DOMAIN locks[p]) =>
              /\ last'.result = locks[p][t].deviceId
              /\ devices' = devices
              /\ locks' = locks]_vars

\* C4: at every reachable state every Allocation of the lock table references
\* a device of the catalog whose inUse flag is true (a testId has at most one
\* Allocation because the lock table is a map).
LocksReferenceInUse ==
    \A p \in Procs : \A t \in DOMAIN locks[p] :
        /\ LockedIdx(p, locks[p][t]) # 0
        /\ devices[p][locks[p][t].platform][LockedIdx(p, locks[p][t])].inUse

\* C8: initializeDevicePool keeps a persisted Allocation in the lock table
\* only if its deviceId matches a device of the catalog; entries that
\* reference an unknown device are dropped, the others are restored.
RestoreDropsUnknown ==
    [][\A p \in Procs, a \in AndroidCatalogs, i \in IosCatalogs \cup NoDevices :
          (InitializeDevicePool(p, a, i, TRUE) /\ file.exists) =>
              /\ DOMAIN locks'[p] = {t \in DOMAIN file.data : LockedIdx(p, file.data[t])' # 0}
              /\ \A t \in DOMAIN locks'[p] : locks'[p][t] = file.data[t]]_vars

\* devices of platform pl that worker p marks inUse
InUseCount(p, pl) ==
    Cardinality({i \in DOMAIN devices[p][pl] : devices[p][pl][i].inUse})

\* testIds of worker p's lock table whose Allocation is for platform pl
LocksOf(p, pl) == {t \in DOMAIN locks[p] : locks[p][t].platform = pl}

\* C2: for a pool of N devices of a platform, starting from all devices free
\* (and no Allocation), at most N Allocations of that platform are held:
\* allocateDevice succeeds for N distinct testIds, and the next one, with no
\* release in between, returns null and changes neither the devices, the lock
\* table nor the lock file.
PoolExhaustion ==
    /\ [](\A p \in Procs, pl \in Platforms :
             clean[p] => /\ Cardinality(LocksOf(p, pl)) = InUseCount(p, pl)
                         /\ InUseCount(p, pl) <= Len(devices[p][pl]))
    /\ [][\A p \in Procs, pl \in Platforms, t \in Tests, writeOk \in BOOLEAN :
             AllocateDevice(p, pl, t, writeOk) =>
                 /\ (clean[p] /\ t \notin DOMAIN locks[p]
                       /\ Cardinality(LocksOf(p, pl)) < Len(devices[p][pl])) =>
                         /\ last'.result # Null
                         /\ t \in DOMAIN locks'[p]
                         /\ Cardinality(LocksOf(p, pl))' = Cardinality(LocksOf(p, pl)) + 1
                 /\ InUseCount(p, pl) = Len(devices[p][pl]) =>
                         /\ last'.result = Null
                         /\ devices' = devices
                         /\ locks' = locks
                         /\ file' = file]_vars

\* C2, reached: a clean pool of two Android devices holds two Allocations and
\* a third allocateDevice has just returned null
PoolExhaustionReached ==
    /\ clean["w1"]
    /\ Len(devices["w1"]["android"]) = 2
    /\ Cardinality(LocksOf("w1", "android")) = 2
    /\ last = [op |-> "allocateDevice", result |-> Null]

\* releaseDevice(testId) of worker p finds no lock, or no device for the lock
NoOpRelease(p, t) ==
    t \notin DOMAIN locks[p] \/ LockedIdx(p, locks[p][t]) = 0

\* C5: releaseDevice(testId) without an Allocation for testId changes nothing
\* and returns normally, and the state one releaseDevice(testId) leaves is one
\* a second releaseDevice(testId) leaves unchanged: devices, lock table and
\* lock file after two calls are those after one call.
ReleaseIdempotent ==
    [][\A p \in Procs, t \in Tests, writeOk \in BOOLEAN :
          ReleaseDevice(p, t, writeOk) =>
              /\ NoOpRelease(p, t)'
              /\ last'.result = Undefined
              /\ NoOpRelease(p, t) =>
                    /\ devices' = devices
                    /\ locks' = locks
                    /\ file' = file]_vars

\* C5, reached: t1 was released and the lock file was rewritten without it,
\* while another test still holds its Allocation
ReleaseIdempotentReached ==
    /\ last.op = "releaseDevice"
    /\ "t1" \notin DOMAIN locks["w1"]
    /\ "t2" \in DOMAIN locks["w1"]
    /\ file.exists
    /\ DOMAIN file.data = DOMAIN locks["w1"]
    /\ ~devices["w1"]["android"][1].inUse

\* the devices of platform pl worker p marks inUse, by deviceId
InUseIds(p, pl) ==
    {DeviceIdOf(devices[p][pl][i]) : i \in {j \in DOMAIN devices[p][pl] : devices[p][pl][j].inUse}}

\* the Android pool of worker p is the configured one, [Pixel5, Pixel4]
ConfiguredPool(p) ==
    /\ Len(devices[p]["android"]) = 2
    /\ DeviceIdOf(devices[p]["android"][1]) = Pixel5.id
    /\ DeviceIdOf(devices[p]["android"][2]) = Pixel4.id

\* C6: a released device is allocatable again. With pool [A, B]: Allocate(t1)
\* yields A, Allocate(t2) yields B, Allocate(t3) fails, and after Release(t1)
\* Allocate(t3) yields A. In general releaseDevice(t) of an allocated t frees
\* the device t held, and allocateDevice returns the free device of lowest
\* position.
ReleasedDeviceReallocated ==
    [][\A p \in Procs, t \in Tests, writeOk \in BOOLEAN :
          /\ (last'.op = "releaseDevice" /\ ~NoOpRelease(p, t)
                /\ ReleaseDevice(p, t, writeOk)) =>
                    /\ ~devices'[p][locks[p][t].platform][LockedIdx(p, locks[p][t])].inUse
                    /\ t \notin DOMAIN locks'[p]
                    /\ (ConfiguredPool(p) /\ locks[p][t].deviceId = Pixel5.id
                          /\ InUseIds(p, "android") = {Pixel5.id, Pixel4.id}) =>
                              InUseIds(p, "android")' = {Pixel4.id}
          /\ \A pl \in Platforms :
                (last'.op = "allocateDevice" /\ AllocateDevice(p, pl, t, writeOk)) =>
                    /\ last'.result # Null =>
                          \E i \in DOMAIN devices[p][pl] :
                              /\ ~devices[p][pl][i].inUse
                              /\ \A j \in 1..(i - 1) : devices[p][pl][j].inUse
                              /\ last'.result = DeviceIdOf(devices[p][pl][i])
                              /\ locks'[p][t].deviceId = DeviceIdOf(devices[p][pl][i])
                              /\ devices'[p][pl][i].inUse
                    /\ (pl = "android" /\ ConfiguredPool(p)) =>
                          /\ InUseIds(p, pl) = {} => last'.result = Pixel5.id
                          /\ InUseIds(p, pl) = {Pixel5.id} => last'.result = Pixel4.id
                          /\ InUseIds(p, pl) = {Pixel5.id, Pixel4.id} => last'.result = Null
                          /\ InUseIds(p, pl) = {Pixel4.id} => last'.result = Pixel5.id]_vars

\* C6, reached: t1 gave A back, t2 still holds B, and t3 has just been given A
ReleasedDeviceReallocatedReached ==
    /\ ConfiguredPool("w1")
    /\ last = [op |-> "allocateDevice", result |-> Pixel5.id]
    /\ DOMAIN locks["w1"] = {"t2", "t3"}
    /\ locks["w1"]["t2"].deviceId = Pixel4.id
    /\ locks["w1"]["t3"].deviceId = Pixel5.id
    /\ InUseIds("w1", "android") = {Pixel5.id, Pixel4.id}

\* catalogs initializeDevicePool is called with
AnyAndroid == AndroidCatalogs

AnyIos == IosCatalogs \cup NoDevices

\* the device a lock references is not among getAvailableDevices() of worker p
NotAvailable(p, lock) ==
    \A k \in DOMAIN GetAvailableDevices(p)[lock.platform] :
        ~Matches(GetAvailableDevices(p)[lock.platform][k], lock.deviceId)

\* C7: after initializeDevicePool ran with a lock file that references a
\* device D of the catalog, D is inUse and is not in getAvailableDevices();
\* allocateDevice never returns a device that is inUse and leaves it inUse,
\* and releaseDevice(t) frees no device but the one t's Allocation references.
RestoredDeviceHeld ==
    [][/\ \A p \in Procs, a \in AnyAndroid, i \in AnyIos :
            (file.exists /\ InitializeDevicePool(p, a, i, TRUE)) =>
                \A t2 \in DOMAIN file.data :
                    LockedIdx(p, file.data[t2])' # 0 =>
                        /\ devices'[p][file.data[t2].platform][LockedIdx(p, file.data[t2])'].inUse
                        /\ NotAvailable(p, file.data[t2])'
                        /\ locks'[p][t2] = file.data[t2]
       /\ \A p \in Procs, pl \in Platforms, t \in Tests, writeOk \in BOOLEAN :
            (last'.op = "allocateDevice" /\ AllocateDevice(p, pl, t, writeOk)) =>
                \A i \in DOMAIN devices[p][pl] :
                    devices[p][pl][i].inUse =>
                        /\ devices'[p][pl][i].inUse
                        /\ last'.result # DeviceIdOf(devices[p][pl][i])
       /\ \A p \in Procs, t \in Tests, writeOk \in BOOLEAN :
            (last'.op = "releaseDevice" /\ ReleaseDevice(p, t, writeOk)) =>
                \A pl \in Platforms : \A i \in DOMAIN devices[p][pl] :
                    (devices[p][pl][i].inUse /\ ~devices'[p][pl][i].inUse) =>
                        /\ t \in DOMAIN locks[p]
                        /\ locks[p][t].platform = pl
                        /\ Matches(devices[p][pl][i], locks[p][t].deviceId)]_vars

\* C7, reached: initializeDevicePool has just restored from the lock file an
\* Allocation of a test for a device of the catalog, which it holds inUse
RestoredDeviceHeldReached ==
    /\ last.op = "initializeDevicePool"
    /\ file.exists
    /\ \E t \in DOMAIN file.data :
          /\ t \in DOMAIN locks["w1"]
          /\ locks["w1"][t] = file.data[t]
          /\ LockedIdx("w1", file.data[t]) # 0
          /\ devices["w1"][file.data[t].platform][LockedIdx("w1", file.data[t])].inUse
          /\ NotAvailable("w1", file.data[t])

\* C9: a persist done by one process on its Allocate or Release merges its
\* change into the file: an Allocation another process persisted earlier and
\* has not released is still in the lock file afterwards.
PersistMerges ==
    [][\A p \in Procs, t \in Tests :
          (AllocateDevice(p, "android", t, TRUE) \/ ReleaseDevice(p, t, TRUE)) =>
              \A q \in Procs \ {p} : \A t2 \in (DOMAIN locks[q] \cap TestsOf[q]) \ {t} :
                  (file.exists /\ t2 \in DOMAIN file.data /\ file.data[t2] = locks[q][t2]) =>
                      /\ file'.exists
                      /\ t2 \in DOMAIN file'.data
                      /\ file'.data[t2] = locks[q][t2]]_vars

FailedAnswer(response) ==
    \/ response.rejected
    \/ response.status # 200
    \/ response.device = None

\* C11: requestDevice for a testId whose earlier requestDevice succeeded
\* returns the cached Allocation, which is the one the first call stored and
\* returned, and issues no network call; the first call issued one POST /device.
RequestDeviceCached ==
    [][/\ \A t \in Tests :
            (FarmRequestDevice(t) /\ t \in DOMAIN allocations) =>
                /\ reply'.op = "requestDevice"
                /\ reply'.testId = t
                /\ reply'.allocation = allocations[t]
                /\ reply'.calls = 0
                /\ pending' = pending
                /\ allocations' = allocations
       /\ \A i \in DOMAIN pending : \A response \in AllocationAnswers :
            (FarmRequestDeviceAnswer(i, response) /\ ~FailedAnswer(response)) =>
                /\ reply'.calls = 1
                /\ reply'.allocation.allocated
                /\ reply'.allocation.device.id = response.device
                /\ pending[i].testId \in DOMAIN allocations'
                /\ allocations'[pending[i].testId] = reply'.allocation]_brokerVars

\* C11, reached: a second requestDevice of a testId, made after its first one
\* succeeded, has returned the cached Allocation without a network call
RequestDeviceCachedReached ==
    /\ reply.op = "requestDevice"
    /\ reply.prior = "allocated"
    /\ reply.calls = 0
    /\ reply.testId \in DOMAIN allocations
    /\ reply.allocation = allocations[reply.testId]
    /\ reply.allocation.allocated

\* C12: requestDevice whose POST /device is rejected, answered with another
\* status than 200 or answered without a device returns null and stores no
\* Allocation; requestDevice for a testId without a cached Allocation issues
\* a network call.
RequestDeviceFailure ==
    [][/\ \A i \in DOMAIN pending : \A response \in AllocationAnswers :
            (FarmRequestDeviceAnswer(i, response) /\ FailedAnswer(response)) =>
                /\ reply'.op = "requestDevice"
                /\ reply'.testId = pending[i].testId
                /\ reply'.allocation = NoAllocation
                /\ allocations' = allocations
                /\ pending[i].testId \notin DOMAIN allocations'
       /\ \A t \in Tests :
            (FarmRequestDevice(t) /\ t \notin DOMAIN allocations) =>
                /\ Len(pending') = Len(pending) + 1
                /\ pending'[Len(pending')].op = "requestDevice"
                /\ pending'[Len(pending')].testId = t]_brokerVars

\* C12, reached: a requestDevice of a testId whose previous requestDevice had
\* failed issued a network call again, and failed again
RequestDeviceFailureReached ==
    /\ reply.op = "requestDevice"
    /\ reply.prior = "failed"
    /\ reply.calls = 1
    /\ reply.allocation = NoAllocation
    /\ reply.testId \notin DOMAIN allocations

\* C13: releaseDevice without a cached Allocation returns true without a
\* network call and changes nothing; a release call answered with status 200
\* removes the Allocation from the cache and returns true.
FarmReleaseIdempotent ==
    [][/\ \A t \in Tests :
            (FarmReleaseDevice(t) /\ t \notin DOMAIN allocations) =>
                /\ reply'.op = "releaseDevice"
                /\ reply'.testId = t
                /\ reply'.success
                /\ reply'.calls = 0
                /\ pending' = pending
                /\ allocations' = allocations
       /\ \A i \in DOMAIN pending : \A response \in ReleaseAnswers :
            (FarmReleaseDeviceAnswer(i, response) /\ ~response.rejected /\ response.status = 200) =>
                /\ reply'.success
                /\ reply'.calls = 1
                /\ pending[i].testId \notin DOMAIN allocations']_brokerVars

\* C13, reached: a second releaseDevice of a testId, made after its release
\* call succeeded, has returned true without a network call
FarmReleaseIdempotentReached ==
    /\ reply.op = "releaseDevice"
    /\ reply.prior = "released"
    /\ reply.calls = 0
    /\ reply.success
    /\ reply.testId \notin DOMAIN allocations

\* C14: two tests initialized with records that have a user hold different
\* user objects (no shared mutable storage) whose identity fields differ.
RecordsIsolated ==
    \A t1, t2 \in DOMAIN testData :
        (t1 # t2 /\ testData[t1].user # NoUser /\ testData[t2].user # NoUser) =>
            /\ testData[t1].user # testData[t2].user
            /\ heap[testData[t1].user].email # heap[testData[t2].user].email
            /\ heap[testData[t1].user].username # heap[testData[t2].user].username

\* C15: initializeTestData leaves the user object of baseData, here a record
\* of the fixture cache, with the field values it had before the call.
BaseDataUnchanged ==
    [][\A contextId \in Contexts :
          (ret.kind = "fixture" /\ InitializeTestData("t1", BaseOf(ret.ref), contextId)) =>
              heap'[ret.ref] = heap[ret.ref]]_dataVars

\* C16: updateTestData on an initialized testId stores and returns the
\* record with newData merged over it; on a testId without a stored record
\* it returns the empty record and stores none.
UpdateSoftFails ==
    [][\A t \in DataTests, newData \in NewDatas :
          UpdateTestData(t, newData) =>
              IF t \in DOMAIN testData
              THEN /\ t \in DOMAIN testData'
                   /\ ret'.record = testData'[t]
                   /\ \A f \in {"user", "_executionContext", "note"} :
                         testData'[t][f] = IF newData[f] # EmptyRecord[f]
                                           THEN newData[f] ELSE testData[t][f]
              ELSE /\ ret'.record = EmptyRecord
                   /\ t \notin DOMAIN testData']_dataVars

\* C17: cleanupTestData(testId) leaves testId without record and without
\* binding, leaves every other test's record and binding and every user
\* object as they were, and changes nothing when testId had neither.
CleanupIdempotent ==
    [][\A t \in DataTests :
          CleanupTestData(t) =>
              /\ t \notin DOMAIN testData'
              /\ t \notin DOMAIN testExecutionContexts'
              /\ DOMAIN testData' = DOMAIN testData \ {t}
              /\ DOMAIN testExecutionContexts' = DOMAIN testExecutionContexts \ {t}
              /\ \A u \in DOMAIN testData' : testData'[u] = testData[u]
              /\ \A u \in DOMAIN testExecutionContexts' :
                    testExecutionContexts'[u] = testExecutionContexts[u]
              /\ heap' = heap
              /\ (t \notin DOMAIN testData /\ t \notin DOMAIN testExecutionContexts) =>
                    (testData' = testData /\ testExecutionContexts' = testExecutionContexts)]_dataVars

\* C17, reached: cleanupTestData ran for a testId that had no stored record
\* any more, while another test keeps its record and its binding
CleanupIdempotentReached ==
    /\ ret.op = "cleanupTestData"
    /\ ~ret.known
    /\ ret.testId \notin DOMAIN testData
    /\ ret.testId \notin DOMAIN testExecutionContexts
    /\ \E u \in DOMAIN testData \cap DOMAIN testExecutionContexts :
          testData[u]._executionContext = testExecutionContexts[u]

\* C18: getTestData(testId) returns the stored record when there is one and
\* the empty record otherwise, and changes no record, binding or object.
GetTestDataPure ==
    [][\A t \in DataTests :
          GetTestData(t) =>
              /\ ret'.record = IF t \in DOMAIN testData THEN testData[t] ELSE EmptyRecord
              /\ testData' = testData
              /\ testExecutionContexts' = testExecutionContexts
              /\ heap' = heap
              /\ dataCache' = dataCache]_dataVars

\* C18, reached: getTestData returned the stored record of an initialized test
GetTestDataPureReached ==
    /\ ret.op = "getTestData"
    /\ ret.known
    /\ ret.testId \in DOMAIN testData
    /\ ret.record = testData[ret.testId]
    /\ ret.record._executionContext \in Contexts

\* C19: loadTestData with a category returns the record at position index
\* when index is in range, the first record for every other index, and the
\* empty record when the category has no record.
LoadSelectsRecord ==
    [][\A dataType \in Types, category \in Categories \ {Null}, index \in Indexes :
          (ret'.op = "loadTestData" /\ LoadTestData(dataType, category, index) /\
           CacheKey(dataType, category) \in DOMAIN dataCache') =>
              LET data == dataCache'[CacheKey(dataType, category)]
                  list == IF category \in DOMAIN data THEN data[category] ELSE <<>>
              IN  IF index >= 0 /\ index < Len(list)
                  THEN ret'.kind = "fixture" /\ ret'.ref = list[index + 1]
                  ELSE IF Len(list) > 0
                       THEN ret'.kind = "fixture" /\ ret'.ref = list[1]
                       ELSE ret'.kind = "empty"]_dataVars

\* C20: loadTestData for a cached (type, category) pair reads no document and
\* answers from the cache, whatever the document is by then; when the pair is
\* not cached and the document is missing or not parseable it returns an
\* empty result and caches nothing; a change of the document changes neither
\* the cache nor the cached records.
LoadReadsOnce ==
    [][/\ \A dataType \in Types, category \in Categories, index \in Indexes :
            (ret'.op = "loadTestData" /\ LoadTestData(dataType, category, index)) =>
                LET key == CacheKey(dataType, category)
                IN  IF key \in DOMAIN dataCache
                    THEN /\ ~ret'.read
                         /\ dataCache' = dataCache
                         /\ heap' = heap
                         /\ ret'.kind = Selected(dataCache, key, category, index).kind
                         /\ ret'.ref = Selected(dataCache, key, category, index).ref
                    ELSE IF source[dataType].state # "ok"
                         THEN /\ ret'.kind = NoData(category)
                              /\ dataCache' = dataCache
                              /\ heap' = heap
                         ELSE /\ ret'.read
                              /\ key \in DOMAIN dataCache'
       /\ \A dataType \in Types, doc \in Documents :
            SourceChange(dataType, doc) => (dataCache' = dataCache /\ heap' = heap)]_dataVars

\* C20, reached: a load was answered from the cache with a cached record,
\* without a read, while the document was missing
LoadReadsOnceReached ==
    /\ ret.op = "loadTestData"
    /\ ret.seen = "missing"
    /\ ~ret.read
    /\ ret.kind = "fixture"
    /\ ret.ref \in DOMAIN heap

\* C22: the ExecutionContext ids are never reused across live tests: two
\* distinct testIds that both have a context binding are bound to different
\* context ids.
ContextIdsUnique ==
    \A t1 \in DOMAIN testExecutionContexts, t2 \in DOMAIN testExecutionContexts :
        t1 # t2 => testExecutionContexts[t1] # testExecutionContexts[t2]

\* C23: after releaseDevice(testId) returned for a testId that had an
\* Allocation, the lock table has no Allocation for testId and the lock file
\* (its write succeeding) has no entry for testId, also when the Allocation
\* references a device that is not in the catalog.
ReleaseRemovesLock ==
    [][\A p \in Procs, t \in Tests :
          (last'.op = "releaseDevice" /\ t \in DOMAIN locks[p]
             /\ ReleaseDevice(p, t, TRUE)) =>
                /\ t \notin DOMAIN locks'[p]
                /\ t \notin DOMAIN file'.data]_vars

\* C24: allocateDevice selects the device of lowest position in the list of
\* the requested platform whose inUse is false, marks it and no other device
\* of any platform, and sets for testId a lock with that device's id, or its
\* udid when it has no id; without a free device it returns null and changes
\* nothing.
AllocateFirstFree ==
    [][last'.op = "allocateDevice" =>
       \A p \in Procs, pl \in Platforms, t \in Tests, writeOk \in BOOLEAN :
          AllocateDevice(p, pl, t, writeOk) =>
              LET free == {i \in DOMAIN devices[p][pl] : ~devices[p][pl][i].inUse}
              IN  IF free = {}
                  THEN /\ last'.result = Null
                       /\ devices' = devices
                       /\ locks' = locks
                  ELSE \E i \in free :
                          LET d == devices[p][pl][i]
                              expected == IF d.id # None THEN d.id ELSE d.udid
                          IN  /\ \A j \in free : i <= j
                              /\ last'.result = expected
                              /\ locks'[p][t] = [platform |-> pl, deviceId |-> expected,
                                                 timestamp |-> IsoNow]
                              /\ devices'[p][pl][i].inUse
                              /\ \A j \in DOMAIN devices[p][pl] \ {i} :
                                    devices'[p][pl][j] = devices[p][pl][j]
                              /\ \A pl2 \in Platforms \ {pl} :
                                    devices'[p][pl2] = devices[p][pl2]
                              /\ DOMAIN locks'[p] = DOMAIN locks[p] \cup {t}
                              /\ \A t2 \in DOMAIN locks[p] \ {t} :
                                    locks'[p][t2] = locks[p][t2]]_vars

\* C24, reached: with an Android device in use and one free, a request for
\* ios was given the iOS device, locked under its udid
AllocateFirstFreeReached ==
    /\ last = [op |-> "allocateDevice", result |-> IPhone13.udid]
    /\ "t2" \in DOMAIN locks["w1"]
    /\ locks["w1"]["t2"].platform = "ios"
    /\ locks["w1"]["t2"].deviceId = IPhone13.udid
    /\ ConfiguredPool("w1")
    /\ InUseIds("w1", "android") = {Pixel5.id}
    /\ devices["w1"]["ios"][1].inUse

\* C25: after an allocateDevice that returned a device and after a
\* releaseDevice that removed an Allocation, when the write succeeded the
\* lock file holds exactly the lock table of the writing process, one entry
\* {platform, deviceId, timestamp} per Allocation; when the write failed the
\* file is as before, the call returned as usual and the change of the lock
\* table stands.
PersistWritesTable ==
    [][last'.op \in {"allocateDevice", "releaseDevice"} =>
       \A p \in Procs, t \in Tests, writeOk \in BOOLEAN :
          LET written ==
                  IF writeOk
                  THEN /\ file'.exists
                       /\ DOMAIN file'.data = DOMAIN locks'[p]
                       /\ \A k \in DOMAIN locks'[p] :
                             /\ file'.data[k] = locks'[p][k]
                             /\ DOMAIN file'.data[k] = {"platform", "deviceId", "timestamp"}
                  ELSE file' = file
          IN  /\ \A pl \in Platforms :
                    (last'.op = "allocateDevice" /\ last'.result # Null
                       /\ AllocateDevice(p, pl, t, writeOk)) =>
                          /\ t \in DOMAIN locks'[p]
                          /\ locks'[p][t].platform = pl
                          /\ locks'[p][t].deviceId = last'.result
                          /\ written
              /\ (last'.op = "releaseDevice" /\ t \in DOMAIN locks[p]
                    /\ locks'[p] # locks[p] /\ ReleaseDevice(p, t, writeOk)) =>
                          /\ t \notin DOMAIN locks'[p]
                          /\ last'.result = Undefined
                          /\ written]_vars

\* C25, reached: allocateDevice returned a device to t2 while the write of
\* the lock file failed: the file still holds the table with t1 only
PersistWritesTableReached ==
    /\ last.op = "allocateDevice"
    /\ last.result # Null
    /\ faults = 1
    /\ DOMAIN locks["w1"] = {"t1", "t2"}
    /\ locks["w1"]["t2"].deviceId = last.result
    /\ file.exists
    /\ DOMAIN file.data = {"t1"}

\* C26: the registry has no expiry. A worker that ends leaves the lock file
\* as it is; initializeDevicePool on a lock file with an entry for a device D
\* of the catalog marks D inUse and restores the lock; allocateDevice gives a
\* device that a lock of another testId holds to nobody, and releaseDevice(t)
\* leaves inUse the devices that locks of other testIds hold and keeps those
\* locks.
CrashedLockHeld ==
    [][/\ \A p \in Procs : NewWorker(p) => file' = file
       /\ (last'.op = "initializeDevicePool" /\ file.exists) =>
          \A p \in Procs, a \in AnyAndroid, i \in AnyIos :
            InitializeDevicePool(p, a, i, TRUE) =>
                  /\ file' = file
                  /\ \A t \in DOMAIN file.data :
                        LET catalog == IF file.data[t].platform = "android" THEN a ELSE i
                            D == FindDevice(catalog, file.data[t].deviceId)
                        IN  D # 0 =>
                              /\ devices'[p][file.data[t].platform][D].inUse
                              /\ t \in DOMAIN locks'[p]
                              /\ locks'[p][t].deviceId = file.data[t].deviceId
       /\ last'.op = "allocateDevice" =>
          \A p \in Procs, pl \in Platforms, t \in Tests, writeOk \in BOOLEAN :
            AllocateDevice(p, pl, t, writeOk) =>
                \A t2 \in DOMAIN locks[p] \ {t} :
                    LET D == FindDevice(devices[p][locks[p][t2].platform], locks[p][t2].deviceId)
                    IN  (D # 0 /\ devices[p][locks[p][t2].platform][D].inUse) =>
                          /\ devices'[p][locks[p][t2].platform][D].inUse
                          /\ (locks[p][t2].platform = pl => last'.result # locks[p][t2].deviceId)
                          /\ locks'[p][t2] = locks[p][t2]
       /\ last'.op = "releaseDevice" =>
          \A p \in Procs, t \in Tests, writeOk \in BOOLEAN :
            ReleaseDevice(p, t, writeOk) =>
                \A t2 \in DOMAIN locks[p] \ {t} :
                    LET D == FindDevice(devices[p][locks[p][t2].platform], locks[p][t2].deviceId)
                        shared == t \in DOMAIN locks[p] /\ SameDevice(locks[p][t], locks[p][t2])
                    IN  /\ t2 \in DOMAIN locks'[p]
                        /\ (D # 0 /\ devices[p][locks[p][t2].platform][D].inUse
                              /\ ~shared) =>
                                devices'[p][locks[p][t2].platform][D].inUse]_vars

\* C26, reached: the lock of t1 on the only Android device came back from
\* the lock file after the worker that took it ended, and allocateDevice has
\* just answered null to a request for an Android device
CrashedLockHeldReached ==
    /\ last = [op |-> "allocateDevice", result |-> Null]
    /\ faults = 0
    /\ ~clean["w1"]
    /\ Len(devices["w1"]["android"]) = 1
    /\ devices["w1"]["android"][1].inUse
    /\ ~devices["w1"]["ios"][1].inUse
    /\ DOMAIN locks["w1"] = {"t1"}
    /\ locks["w1"]["t1"].deviceId = Pixel5.id
    /\ file.exists
    /\ DOMAIN file.data = {"t1"}

\* C30: the `after` hook of a worker removes no persisted lock of a test
\* that still runs in another worker: an entry of the lock file for a test
\* another worker holds an Allocation for is in the lock file afterwards.
AfterKeepsOtherLocks ==
    [][\A p \in Procs :
          (last'.op = "after" /\ AfterHook(p, TRUE)) =>
              \A q \in Procs \ {p} : \A t \in DOMAIN locks[q] :
                  (~done[q] /\ t \in DOMAIN file.data) =>
                      (file'.exists /\ t \in DOMAIN file'.data)]_vars

\* C21: the Pool Registry and the Remote Device Broker give the same
\* outcomes to the same calls: once both have returned, Allocate yielded a
\* device on both or on neither, the same device on both, and Release
\* returned the boolean true on both.
ContractAgrees ==
    pending = <<>> =>
        /\ (last.op = "allocateDevice" /\ reply.op = "requestDevice") =>
              /\ last.result = Null <=> ~reply.success
              /\ reply.success => reply.allocation.device.id = last.result
        /\ (last.op = "releaseDevice" /\ reply.op = "releaseDevice") =>
              /\ reply.success
              /\ last.result = True

TeardownLeavesNothing ==
    [][/\ (conf = "parallel" /\ phase = "finished" /\ ParallelAfterTest(TRUE)) =>
            LET t == context.testId
            IN  /\ t \notin DOMAIN locks'["w1"]
                /\ t \in DOMAIN locks["w1"] =>
                      \/ LockedIdx("w1", locks["w1"][t]) = 0
                      \/ ~devices'["w1"][locks["w1"][t].platform][LockedIdx("w1", locks["w1"][t])].inUse
                /\ t \notin DOMAIN testData'
                /\ t \notin DOMAIN testExecutionContexts'
                /\ baseTestId \notin DOMAIN testData'
                /\ baseTestId \notin DOMAIN testExecutionContexts'
       /\ (conf = "sequential" /\ BaseTestAfter(TRUE)) =>
                /\ baseTestId \notin DOMAIN locks'["w1"]
                /\ baseTestId \notin DOMAIN testData'
                /\ baseTestId \notin DOMAIN testExecutionContexts']_driverSpecVars

\* C29: when the `after` hook of the device-farm configuration has run at
\* the end of the worker's tests, the allocation cache of the broker is
\* empty, whatever the releaseDevice calls of afterTest returned.
AfterReleasesAll ==
    [][(conf = "devicefarm" /\ phase = "idle" /\ FarmAfter) =>
            (phase' = "closed" /\ allocations' = <<>>)]_driverSpecVars

\* C32: a release call that is rejected or answered with another status than
\* 200 makes releaseDevice return false, after one network call, with the
\* cache as it was and the Allocation still in it; a releaseDevice of a
\* testId whose Allocation is cached issues the release call for that
\* Allocation, and a requestDevice of a testId whose release failed returns
\* the cached Allocation.
FarmReleaseFailureKeeps ==
    [][/\ \A i \in DOMAIN pending : \A response \in ReleaseAnswers :
            (FarmReleaseDeviceAnswer(i, response) /\ (response.rejected \/ response.status # 200)) =>
                /\ reply'.op = "releaseDevice"
                /\ reply'.testId = pending[i].testId
                /\ ~reply'.success
                /\ reply'.calls = 1
                /\ allocations' = allocations
                /\ pending[i].testId \in DOMAIN allocations'
                /\ allocations'[pending[i].testId] = pending[i].allocation
       /\ \A t \in Tests :
            (FarmReleaseDevice(t) /\ t \in DOMAIN allocations) =>
                /\ pending' = Append(pending, [op |-> "releaseDevice", testId |-> t,
                                               allocation |-> allocations[t]])
                /\ allocations' = allocations
       /\ \A t \in Tests :
            (FarmRequestDevice(t) /\ t \in DOMAIN allocations /\ hist[t] = "kept") =>
                /\ reply'.op = "requestDevice"
                /\ reply'.allocation = allocations[t]
                /\ reply'.calls = 0
                /\ pending' = pending
                /\ allocations' = allocations]_brokerVars

\* C32, reached: the release call of a testId failed, a later releaseDevice of
\* the same testId issued the call again, and that call failed as well: the
\* Allocation is still cached
FarmReleaseFailureKeepsReached ==
    /\ reply.op = "releaseDevice"
    /\ reply.prior = "kept"
    /\ reply.calls = 1
    /\ ~reply.success
    /\ reply.testId \in DOMAIN allocations
    /\ allocations[reply.testId] = reply.allocation

\* C34: releaseDevice(t) of a worker changes, of the devices, only the inUse
\* flag of the device t's Allocation references, which becomes false, and, of
\* the lock tables, only t's entry, which is removed: every other device of
\* every catalog and the Allocation of every other testId are as before; for
\* a testId without an Allocation the devices, the lock table and the lock
\* file are unchanged.
ReleaseFrame ==
    [][\A p \in Procs, t \in Tests, writeOk \in BOOLEAN :
          ReleaseDevice(p, t, writeOk) =>
              /\ \A q \in Procs, pl \in Platforms :
                    /\ Len(devices'[q][pl]) = Len(devices[q][pl])
                    /\ \A i \in DOMAIN devices[q][pl] :
                          IF /\ q = p
                             /\ t \in DOMAIN locks[p]
                             /\ pl = locks[p][t].platform
                             /\ i = LockedIdx(p, locks[p][t])
                          THEN devices'[q][pl][i] = [devices[q][pl][i] EXCEPT !.inUse = FALSE]
                          ELSE devices'[q][pl][i] = devices[q][pl][i]
              /\ \A q \in Procs, t2 \in Tests :
                    (q # p \/ t2 # t) =>
                        /\ t2 \in DOMAIN locks'[q] <=> t2 \in DOMAIN locks[q]
                        /\ t2 \in DOMAIN locks[q] => locks'[q][t2] = locks[q][t2]
              /\ (t \in DOMAIN locks[p] /\ LockedIdx(p, locks[p][t]) # 0) =>
                    t \notin DOMAIN locks'[p]
              /\ t \notin DOMAIN locks[p] =>
                    /\ devices' = devices
                    /\ locks' = locks
                    /\ file' = file]_vars

\* C34, reached: t1, which held the first android device, was released while
\* t2 holds the second one: the second device is still inUse and t2's
\* Allocation is still in the lock table
ReleaseFrameReached ==
    /\ last.op = "releaseDevice"
    /\ "t1" \notin DOMAIN locks["w1"]
    /\ "t2" \in DOMAIN locks["w1"]
    /\ locks["w1"]["t2"].deviceId = "emulator-5556"
    /\ Len(devices["w1"]["android"]) = 2
    /\ ~devices["w1"]["android"][1].inUse
    /\ devices["w1"]["android"][2].inUse

\* C35: at every reachable state every device whose inUse flag is true is
\* referenced by the Allocation of some testId of the lock table (so that
\* releasing every testId of the lock table frees every device).
NoLeakedDevice ==
    \A p \in Procs, pl \in Platforms :
        \A i \in DOMAIN devices[p][pl] :
            devices[p][pl][i].inUse =>
                \E t \in LocksOf(p, pl) : LockedIdx(p, locks[p][t]) = i

\* C36: a testId has a stored record exactly when it has a context binding,
\* and the _executionContext of the record is the bound context id.
RecordIffBinding ==
    /\ DOMAIN testData = DOMAIN testExecutionContexts
    /\ \A t \in DOMAIN testData :
          testData[t]._executionContext = testExecutionContexts[t]

\* C31: of the requestDevice calls that overlap, at most one per testId has
\* issued POST /device and awaits its answer, and an answer that allocates a
\* device never replaces a cached Allocation of its testId (whose device
\* would leave the cache without a release call).
OverlapHoldsOne ==
    [][/\ \A i, j \in DOMAIN pending' :
            (/\ i # j
             /\ pending'[i].op = "requestDevice"
             /\ pending'[j].op = "requestDevice") =>
                pending'[i].testId # pending'[j].testId
       /\ \A i \in DOMAIN pending : \A response \in AllocationAnswers :
            (/\ FarmRequestDeviceAnswer(i, response)
             /\ Allocated(response)
             /\ pending[i].testId \in DOMAIN allocations) =>
                allocations'[pending[i].testId] = allocations[pending[i].testId]]_brokerVars

\* C33: every request carries exactly the authentication its configuration
\* selects: X-API-Key alone when an API key is set, also when username and
\* password are set too; Authorization: Basic with the encoded
\* username:password alone when no API key but both username and password
\* are set; neither header otherwise; never both headers.
AuthExactlyOne ==
    [][\A request \in Requests :
          MakeRequest(request[1], request[2]) =>
              LET key == config.apiKey \notin {Undefined, ""}
                  basic == /\ config.username \notin {Undefined, ""}
                           /\ config.password \notin {Undefined, ""}
                  h == sent'.headers
              IN  /\ sent'.method = request[1]
                  /\ sent'.endpoint = request[2]
                  /\ key => /\ h.xApiKey = <<config.apiKey>>
                            /\ h.authorization = <<>>
                  /\ (~key /\ basic) =>
                        /\ h.xApiKey = <<>>
                        /\ h.authorization =
                              <<"Basic", "base64", config.username, ":", config.password>>
                  /\ (~key /\ ~basic) =>
                        /\ h.xApiKey = <<>>
                        /\ h.authorization = <<>>
                  /\ ~(h.xApiKey # <<>> /\ h.authorization # <<>>)]_<<config, sent>>

\* C33, reached: a broker with API key, username and password configured
\* has posted a request that carries the X-API-Key header and no
\* Authorization header
AuthExactlyOneReached ==
    /\ config = [apiKey |-> "key-1", username |-> "farm-user", password |-> "farm-pass"]
    /\ sent.method = "POST"
    /\ sent.headers.xApiKey = <<"key-1">>
    /\ sent.headers.authorization = <<>>

\* C38: getRemoteOptions(testId) for a cached Allocation returns, without
\* throwing, the protocol of the endpoint or http when it has no protocol
\* part, its host, and its port or 4723 when it has none; without a cached
\* Allocation it throws an Error; the cache and the calls in flight are
\* unchanged either way.
RemoteOptionsDerived ==
    [][\A t \in RemoteTests :
          GetRemoteOptions(t) =>
              /\ UNCHANGED brokerVars
              /\ IF t \in DOMAIN allocations
                 THEN LET e == allocations[t].endpoint
                      IN  /\ options'.thrown = None
                          /\ options'.protocol =
                                IF e = "https://farm-host:8080" THEN <<"https">> ELSE <<"http">>
                          /\ options'.hostname = <<"farm-host">>
                          /\ options'.port =
                                IF e = "https://farm-host:8080" THEN 8080 ELSE 4723
                          /\ options'.sessionId = allocations[t].sessionId
                 ELSE options'.thrown = "Error"]_<<brokerVars, options>>

\* the devices of worker p and platform pl whose inUse flag is false, by position
FreeIdx(p, pl) == {i \in DOMAIN devices[p][pl] : ~devices[p][pl][i].inUse}

\* the k-th position, in registration order, of FreeIdx
KthFree(p, pl, k) ==
    CHOOSE i \in FreeIdx(p, pl) : Cardinality({j \in FreeIdx(p, pl) : j < i}) = k - 1

\* C39: getAvailableDevices() returns, for each platform, the devices whose
\* inUse flag is false, every one of them once and in registration order, and
\* leaves devices, lock table and lock file as they are; the allocateDevice
\* that follows it directly returns the first device the snapshot lists for
\* its platform, and null when it lists none.
AvailableSnapshot ==
    [][\A p \in Solo :
          /\ GetAvailableDevicesCall(p) =>
                /\ \A pl \in Platforms :
                      /\ Len(available'[pl]) = Cardinality(FreeIdx(p, pl))
                      /\ \A k \in 1..Len(available'[pl]) :
                            available'[pl][k] = devices[p][pl][KthFree(p, pl, k)]
                /\ devices' = devices
                /\ locks' = locks
                /\ file' = file
          /\ \A pl \in Platforms, t \in Tests :
                (last.op = "getAvailableDevices" /\ AllocateDevice(p, pl, t, TRUE)) =>
                    IF available[pl] = <<>>
                    THEN last'.result = Null
                    ELSE /\ last'.result \in {available[pl][1].id, available[pl][1].udid}
                         /\ last'.result # None]_<<vars, available>>

\* C39, reached: with the first android device in use, the snapshot listed
\* the second one alone, and the allocateDevice that followed returned it
AvailableSnapshotReached ==
    /\ Len(devices["w1"]["android"]) = 2
    /\ Len(available["android"]) = 1
    /\ available["android"][1].id = "emulator-5556"
    /\ last = [op |-> "allocateDevice", result |-> "emulator-5556"]
    /\ devices["w1"]["android"][1].inUse
    /\ devices["w1"]["android"][2].inUse

\* C37: initializeTestData stores a record in which every identity field of
\* the base data is rewritten with the context id, the email and the username
\* of the record itself as well as those under user, in which the other
\* fields have their base values, and which refers back to the context id.
IsolationRewritesIdentity ==
    [][\A t \in DataTests, baseData \in IdentityBases, contextId \in Contexts :
          InitializeTestData(t, baseData, contextId) =>
              LET record == testData'[t]
              IN  /\ record._executionContext = contextId
                  /\ record.note = baseData.note
                  /\ record.user = baseData.user
                  /\ baseData.user # NoUser =>
                        /\ heap'[record.user].email[1].name =
                              Append(heap[baseData.user].email[1].name, contextId)
                        /\ heap'[record.user].username =
                              Append(heap[baseData.user].username, contextId)
                  /\ baseData.email # <<>> =>
                        /\ record.email[1].name = Append(baseData.email[1].name, contextId)
                        /\ record.email[1].domain = baseData.email[1].domain
                  /\ baseData.username # <<>> =>
                        record.username = Append(baseData.username, contextId)]_dataVars

====
